---- MODULE Spec2Model ----
(***************************************************************************)
(* Temporis: reachability games on graphs whose edges carry Presburger     *)
(* availability constraints over the clock variable "time".                *)
(*                                                                         *)
(* The module models                                                       *)
(*   - PresburgerTerm / PresburgerFormula and PresburgerFormula::evaluate, *)
(*   - the two constraint parsers (GGGTemporalGameManager and              *)
(*     PresburgerTemporalDotParser), character by character,               *)
(*   - GGGTemporalGameManager::get_available_moves,                        *)
(*   - GGGTemporalReachabilitySolver (backwards temporal attractor) and    *)
(*     GGGTemporalExpansionSolver (time unfolding + static attractor).     *)
(* Strings are sequences of one-character strings.                         *)
(***************************************************************************)
EXTENDS Integers, Sequences, FiniteSets, TLC

VARIABLES
    mode,               \* which component this behaviour exercises
    pc,                 \* position inside the running operation
    player,             \* graph: vertex -> owner (vertex property "player")
    edges,              \* graph: sequence of edges [src, dst, constraint], in insertion order
    targets,            \* objective_->target_vertices_
    max_time,           \* solver max_time_
    time,               \* loop variable of compute_backwards_temporal_attractor
    current_attractor,  \* local of compute_backwards_temporal_attractor
    attractor_at,       \* history: time -> current_attractor after that iteration
    back_winner,        \* solution of GGGTemporalReachabilitySolver::solve (vertex -> 0/1)
    static_edges,       \* edge set of the unfolded StaticGraph
    target_set,         \* create_expanded_target_set
    attractor,          \* local of compute_static_attractor
    iterations,         \* outer-loop iterations of compute_static_attractor so far
    exp_winner,         \* solution of GGGTemporalExpansionSolver::solve (vertex -> 0/1)
    back_strategy,      \* strategy of the backward solver's solution (vertex -> vertex, partial)
    exp_strategy,       \* strategy of the expansion solver's solution (vertex -> vertex, partial)
    changed,            \* loop flag of compute_static_attractor
    scenario,           \* name of the game under solution ("gen" for a generated one)
    formula,            \* formula under evaluation (evaluator behaviours)
    values,             \* environment handed to evaluate
    result,             \* value returned by the operation under test
    cstr,               \* constraint string handed to a parser
    parsed,             \* formulas the two parsers built from cstr
    objective,          \* objective_: its type_ and time_bound_
    first_winner,       \* <<winners returned by the first solve>>, empty before a second solve
    argv,               \* command line of a front-end run
    input,              \* the description: the file named on the command line, or stdin
    cli,                \* locals and members of the running front-end
    exit_code           \* value returned by main

vars == <<mode, pc, player, edges, targets, max_time, time, current_attractor,
          attractor_at, back_winner, static_edges, target_set, attractor,
          iterations, exp_winner, back_strategy, exp_strategy, changed, scenario,
          formula, values, result, cstr, parsed, objective, first_winner, argv,
          input, cli, exit_code>>

None == "none"

----------------------------------------------------------------------------
(* Bounds of the model *)

NumVertices == 2        \* vertices of the generated games
MaxEdges == 2           \* edges of the generated games
MaxT == 3               \* largest time bound of the generated games
MaxTime == 25           \* times at which a parsed constraint is queried
MaxVal == 3             \* magnitude of the integers in generated environments
MaxArgs == 3            \* words on a generated command line
MaxMod == 3             \* largest modulus of the generated Mod formulas

----------------------------------------------------------------------------
(* Characters and std::string operations *)

Digits == {"0", "1", "2", "3", "4", "5", "6", "7", "8", "9"}

Letters == {"a", "b", "c", "d", "e", "f", "g", "h", "i", "j", "k", "l", "m",
            "n", "o", "p", "q", "r", "s", "t", "u", "v", "w", "x", "y", "z",
            "A", "B", "C", "D", "E", "F", "G", "H", "I", "J", "K", "L", "M",
            "N", "O", "P", "Q", "R", "S", "T", "U", "V", "W", "X", "Y", "Z"}

isspace(c) == c \in {" ", "\t", "\n", "\r", "\f"}

isdigit(c) == c \in Digits

isalnum(c) == c \in Digits \cup Letters

DigitVal(c) == CASE c = "0" -> 0 [] c = "1" -> 1 [] c = "2" -> 2 [] c = "3" -> 3
                 [] c = "4" -> 4 [] c = "5" -> 5 [] c = "6" -> 6 [] c = "7" -> 7
                 [] c = "8" -> 8 [] c = "9" -> 9

\* std::remove_if(..., ::isspace) + erase
RemoveSpace(s) == SelectSeq(s, LAMBDA c : ~isspace(c))

\* s.substr(pos) with a 0-based pos
SubstrFrom(s, pos) == SubSeq(s, pos + 1, Len(s))

\* s.substr(pos, n) with a 0-based pos
Substr(s, pos, n) == SubSeq(s, pos + 1, IF pos + n > Len(s) THEN Len(s) ELSE pos + n)

starts_with(s, p) == Len(s) >= Len(p) /\ SubSeq(s, 1, Len(p)) = p

ends_with(s, p) == Len(s) >= Len(p) /\ SubSeq(s, Len(s) - Len(p) + 1, Len(s)) = p

npos == -1

\* s.find(p): 0-based index of the first occurrence of p, npos when absent
Find(s, p) ==
    LET hits == {i \in 0..(Len(s) - Len(p)) : SubSeq(s, i + 1, i + Len(p)) = p}
    IN  IF hits = {} THEN npos ELSE CHOOSE i \in hits : \A j \in hits : i <= j

RECURSIVE DigitRun(_, _, _)
\* value of the digit run of s starting at 1-based index i, acc carried
DigitRun(s, i, acc) ==
    IF i > Len(s) \/ ~isdigit(s[i]) THEN acc
    ELSE DigitRun(s, i + 1, 10 * acc + DigitVal(s[i]))

RECURSIVE SkipSpace(_, _)
SkipSpace(s, i) == IF i <= Len(s) /\ isspace(s[i]) THEN SkipSpace(s, i + 1) ELSE i

\* std::stoi: leading whitespace, optional sign, digit run; throws without a digit
stoi(s) ==
    LET i == SkipSpace(s, 1)
        neg == i <= Len(s) /\ s[i] = "-"
        j == IF i <= Len(s) /\ s[i] \in {"-", "+"} THEN i + 1 ELSE i
    IN  IF j > Len(s) \/ ~isdigit(s[j]) THEN [threw |-> TRUE, val |-> 0]
        ELSE [threw |-> FALSE,
              val |-> IF neg THEN -DigitRun(s, j, 0) ELSE DigitRun(s, j, 0)]

all_of(s, P(_)) == \A i \in 1..Len(s) : P(s[i])

----------------------------------------------------------------------------
(* PresburgerTerm *)

EmptyMap == [x \in {} |-> 0]

\* PresburgerTerm(int val)
TermConst(val) == [coefficients_ |-> EmptyMap, constant_ |-> val]

\* PresburgerTerm(const std::string& var)
TermVar(var) == [coefficients_ |-> [x \in {var} |-> 1], constant_ |-> 0]

\* PresburgerTerm(const std::string& var, int coefficient)
TermVarCoeff(var, coefficient) ==
    [coefficients_ |-> [x \in {var} |-> coefficient], constant_ |-> 0]

----------------------------------------------------------------------------
(* PresburgerFormula *)

MkFormula(t, l, r) ==
    [type_ |-> t, left_ |-> l, right_ |-> r, children_ |-> <<>>,
     existential_var_ |-> <<>>, modulus_ |-> 0, remainder_ |-> 0]

equal(l, r) == MkFormula("EQUAL", l, r)
greaterequal(l, r) == MkFormula("GREATEREQUAL", l, r)
lessequal(l, r) == MkFormula("LESSEQUAL", l, r)
greater(l, r) == MkFormula("GREATER", l, r)
less(l, r) == MkFormula("LESS", l, r)

modulus(expr, m, r) ==
    [MkFormula("MODULUS", expr, TermConst(0)) EXCEPT !.modulus_ = m, !.remainder_ = r]

and_formula(formulas) ==
    [MkFormula("AND", TermConst(0), TermConst(0)) EXCEPT !.children_ = formulas]

or_formula(formulas) ==
    [MkFormula("OR", TermConst(0), TermConst(0)) EXCEPT !.children_ = formulas]

not_formula(f) ==
    [MkFormula("NOT", TermConst(0), TermConst(0)) EXCEPT !.children_ = <<f>>]

exists(var, f) ==
    [MkFormula("EXISTS", TermConst(0), TermConst(0))
        EXCEPT !.existential_var_ = var, !.children_ = <<f>>]

\* the bound of the enumeration in the EXISTS case of evaluate
X_MAX == 10

\* C++ operator% on int: the quotient truncates towards zero, so the
\* remainder carries the sign of the dividend (m # 0)
CRem(a, m) ==
    LET am == IF m < 0 THEN -m ELSE m
    IN  IF a >= 0 THEN a % am ELSE -((-a) % am)

RECURSIVE SumMap(_, _, _)
\* the loop of evaluate_term over term.coefficients_
SumMap(coeffs, env, todo) ==
    IF todo = {} THEN 0
    ELSE LET var == CHOOSE x \in todo : TRUE
         IN  (IF var \in DOMAIN env THEN coeffs[var] * env[var] ELSE 0)
             + SumMap(coeffs, env, todo \ {var})

evaluate_term(term, env) ==
    term.constant_ + SumMap(term.coefficients_, env, DOMAIN term.coefficients_)

\* extended_values = values; extended_values[existential_var_] = val
Extend(env, var, val) ==
    [x \in DOMAIN env \cup {var} |-> IF x = var THEN val ELSE env[x]]

RECURSIVE evaluate(_, _)
RECURSIVE EvalAnd(_, _, _)
RECURSIVE EvalOr(_, _, _)
RECURSIVE EvalExists(_, _, _)

\* for (child : children_) if (!child->evaluate(values)) return false; return true
EvalAnd(children, env, i) ==
    IF i > Len(children) THEN TRUE
    ELSE IF ~evaluate(children[i], env) THEN FALSE
    ELSE EvalAnd(children, env, i + 1)

\* the loop of case OR falling through to `return true`
EvalOr_EmptyTrue(children, env, i) ==
    IF i > Len(children) THEN TRUE
    ELSE IF evaluate(children[i], env) THEN TRUE
    ELSE EvalOr(children, env, i + 1)

\* for (child : children_) if (child->evaluate(values)) return true; return false
EvalOr(children, env, i) ==
    IF i > Len(children) THEN FALSE
    ELSE IF evaluate(children[i], env) THEN TRUE
    ELSE EvalOr(children, env, i + 1)

\* the enumeration stopping one value early (val < 10)
EvalExists_Exclusive(f, env, val) ==
    IF val >= X_MAX THEN FALSE
    ELSE IF evaluate(f.children_[1], Extend(env, f.existential_var_, val)) THEN TRUE
    ELSE EvalExists(f, env, val + 1)

\* for (int val = 0; val <= 10; ++val) ... return false
EvalExists(f, env, val) ==
    IF val > X_MAX THEN FALSE
    ELSE IF evaluate(f.children_[1], Extend(env, f.existential_var_, val)) THEN TRUE
    ELSE EvalExists(f, env, val + 1)

\* case MODULUS of evaluate
EvalModulus(f, env) ==
    CRem(evaluate_term(f.left_, env), f.modulus_) = f.remainder_

evaluate(f, env) ==
    CASE f.type_ = "EQUAL" -> evaluate_term(f.left_, env) = evaluate_term(f.right_, env)
      [] f.type_ = "GREATEREQUAL" -> evaluate_term(f.left_, env) >= evaluate_term(f.right_, env)
      [] f.type_ = "LESSEQUAL" -> evaluate_term(f.left_, env) <= evaluate_term(f.right_, env)
      [] f.type_ = "GREATER" -> evaluate_term(f.left_, env) > evaluate_term(f.right_, env)
      [] f.type_ = "LESS" -> evaluate_term(f.left_, env) < evaluate_term(f.right_, env)
      [] f.type_ = "MODULUS" -> EvalModulus(f, env)
      [] f.type_ = "AND" -> EvalAnd(f.children_, env, 1)
      [] f.type_ = "OR" -> EvalOr(f.children_, env, 1)
      [] f.type_ = "NOT" -> IF f.children_ = <<>> THEN FALSE
                            ELSE ~evaluate(f.children_[1], env)
      [] f.type_ = "EXISTS" -> EvalExists(f, env, 0)
      [] OTHER -> TRUE

RECURSIVE RemainderByZero(_, _)
RECURSIVE ByZeroAnd(_, _, _)
RECURSIVE ByZeroOr(_, _, _)
RECURSIVE ByZeroExists(_, _, _)

\* the loop of case AND reaches a child that computes expr_val % 0
ByZeroAnd(children, env, i) ==
    IF i > Len(children) THEN FALSE
    ELSE IF RemainderByZero(children[i], env) THEN TRUE
    ELSE IF ~evaluate(children[i], env) THEN FALSE
    ELSE ByZeroAnd(children, env, i + 1)

\* the loop of case OR reaches a child that computes expr_val % 0
ByZeroOr(children, env, i) ==
    IF i > Len(children) THEN FALSE
    ELSE IF RemainderByZero(children[i], env) THEN TRUE
    ELSE IF evaluate(children[i], env) THEN FALSE
    ELSE ByZeroOr(children, env, i + 1)

\* the loop of case EXISTS reaches a value for which the child computes expr_val % 0
ByZeroExists(f, env, val) ==
    IF val > X_MAX THEN FALSE
    ELSE LET extended_values == Extend(env, f.existential_var_, val)
         IN  IF RemainderByZero(f.children_[1], extended_values) THEN TRUE
             ELSE IF evaluate(f.children_[1], extended_values) THEN FALSE
             ELSE ByZeroExists(f, env, val + 1)

\* evaluate(f, env) executes (expr_val % modulus_) with modulus_ = 0: the
\* behaviour of the call is undefined
RemainderByZero(f, env) ==
    CASE f.type_ = "MODULUS" -> f.modulus_ = 0
      [] f.type_ = "AND" -> ByZeroAnd(f.children_, env, 1)
      [] f.type_ = "OR" -> ByZeroOr(f.children_, env, 1)
      [] f.type_ = "NOT" -> IF f.children_ = <<>> THEN FALSE
                            ELSE RemainderByZero(f.children_[1], env)
      [] f.type_ = "EXISTS" -> ByZeroExists(f, env, 0)
      [] OTHER -> FALSE

----------------------------------------------------------------------------
(* Constraint parser of GGGTemporalGameManager (ggg_temporal_graph.cpp) *)

S_true == <<"t", "r", "u", "e">>
S_false == <<"f", "a", "l", "s", "e">>
S_exists == <<"e", "x", "i", "s", "t", "s">>
S_mod == <<"m", "o", "d">>
S_eqeq == <<"=", "=">>
TimeVar == <<"t", "i", "m", "e">>

\* the operators tried by the comparison loop, in its order
ComparisonOps == << <<">", "=">>, <<"<", "=">>, <<">">>, <<"<">>, <<"=", "=">>, <<"!", "=">> >>

\* the operators tried by the logical loop, in its order
LogicalOps == << <<"&", "&">>, <<"|", "|">> >>

TrueFormula == equal(TermConst(1), TermConst(1))
FalseFormula == equal(TermConst(1), TermConst(0))

\* an exception (std::invalid_argument of std::stoi) leaving the parser
ThrowFormula == MkFormula("THROW", TermConst(0), TermConst(0))

ThrowTerm == [threw |-> TRUE, term |-> TermConst(0)]
OkTerm(t) == [threw |-> FALSE, term |-> t]

IsDigitOrMinus(c) == isdigit(c) \/ c = "-"
IsAlnumOrUnderscore(c) == isalnum(c) \/ c = "_"

parse_presburger_term(term_str) ==
    IF all_of(term_str, IsDigitOrMinus)
    THEN IF stoi(term_str).threw THEN ThrowTerm ELSE OkTerm(TermConst(stoi(term_str).val))
    ELSE IF all_of(term_str, IsAlnumOrUnderscore)
    THEN OkTerm(TermVar(term_str))
    ELSE LET mult_pos == Find(term_str, <<"*">>)
             coeff_str == Substr(term_str, 0, mult_pos)
             var_str == SubstrFrom(term_str, mult_pos + 1)
         IN  IF mult_pos # npos /\ all_of(coeff_str, IsDigitOrMinus)
                /\ all_of(var_str, IsAlnumOrUnderscore)
             THEN IF stoi(coeff_str).threw THEN ThrowTerm
                  ELSE OkTerm(TermVarCoeff(var_str, stoi(coeff_str).val))
             ELSE OkTerm(TermConst(0))

\* index in ops of the first operator that occurs in s, 0 when none does
FirstOp(s, ops) ==
    LET found == {i \in 1..Len(ops) : Find(s, ops[i]) # npos}
    IN  IF found = {} THEN 0 ELSE CHOOSE i \in found : \A j \in found : i <= j

parse_comparison_formula(formula_str, op, pos) ==
    LET left_term == parse_presburger_term(Substr(formula_str, 0, pos))
        right_term == parse_presburger_term(SubstrFrom(formula_str, pos + Len(op)))
        l == left_term.term
        r == right_term.term
    IN  IF left_term.threw \/ right_term.threw THEN ThrowFormula
        ELSE IF op = <<">", "=">> THEN greaterequal(l, r)
        ELSE IF op = <<"<", "=">> THEN lessequal(l, r)
        ELSE IF op = <<">">> THEN greater(l, r)
        ELSE IF op = <<"<">> THEN less(l, r)
        ELSE IF op = <<"=", "=">> \/ op = <<"=">> THEN equal(l, r)
        ELSE IF op = <<"!", "=">> THEN not_formula(equal(l, r))
        ELSE equal(l, r)

parse_modulus_constraint(formula_str, mod_pos) ==
    LET expr_str == Substr(formula_str, 0, mod_pos)
        remainder_str == SubstrFrom(formula_str, mod_pos + 3)
        eq_pos == Find(remainder_str, S_eqeq)
        expr_term == parse_presburger_term(expr_str)
        m == stoi(Substr(remainder_str, 0, eq_pos))
        r == stoi(SubstrFrom(remainder_str, eq_pos + 2))
    IN  IF eq_pos = npos THEN TrueFormula
        ELSE IF expr_term.threw \/ m.threw \/ r.threw THEN ThrowFormula
        ELSE modulus(expr_term.term, m.val, r.val)

parse_percent_modulus_constraint(formula_str, percent_pos) ==
    LET expr_str == Substr(formula_str, 0, percent_pos)
        remainder_str == SubstrFrom(formula_str, percent_pos + 1)
        eq_pos == Find(remainder_str, S_eqeq)
        expr_term == parse_presburger_term(expr_str)
        m == stoi(Substr(remainder_str, 0, eq_pos))
        r == stoi(SubstrFrom(remainder_str, eq_pos + 2))
    IN  IF eq_pos = npos THEN TrueFormula
        ELSE IF expr_term.threw \/ m.threw \/ r.threw THEN ThrowFormula
        ELSE modulus(expr_term.term, m.val, r.val)

RECURSIVE SkipWord(_, _)
\* first 1-based index >= i of s whose character is not a \w character
SkipWord(s, i) ==
    IF i <= Len(s) /\ IsAlnumOrUnderscore(s[i]) THEN SkipWord(s, i + 1) ELSE i

IsLineTerminator(c) == c \in {"\n", "\r"}

\* std::regex_match(formula_str, R"(exists\s+(\w+)\s*:\s*(.+))"):
\* [matched, var_name (group 1), inner (group 2)]
ExistsRegex(formula_str) ==
    LET a == 7
        b == SkipSpace(formula_str, a)                       \* \s+
        c == SkipWord(formula_str, b)                        \* (\w+)
        d == SkipSpace(formula_str, c)                       \* \s*
        rest == SubSeq(formula_str, d + 1, Len(formula_str)) \* after ':'
        k == SkipSpace(rest, 1)                              \* \s*, greedy
        inner == IF k <= Len(rest) THEN SubSeq(rest, k, Len(rest))
                 ELSE SubSeq(rest, Len(rest), Len(rest))     \* \s* gives one back to (.+)
        ok == /\ starts_with(formula_str, S_exists)
              /\ b > a
              /\ c > b
              /\ d <= Len(formula_str) /\ formula_str[d] = ":"
              /\ inner # <<>>
              /\ \A i \in 1..Len(inner) : ~IsLineTerminator(inner[i])
    IN  [matched |-> ok,
         var_name |-> IF ok THEN SubSeq(formula_str, b, c - 1) ELSE <<>>,
         inner |-> IF ok THEN inner ELSE <<>>]

RECURSIVE parse_constraint(_)
RECURSIVE parse_existential_formula(_)
RECURSIVE parse_logical_formula(_, _, _)

parse_existential_formula(formula_str) ==
    LET match == ExistsRegex(formula_str)
        inner_formula == parse_constraint(match.inner)
    IN  IF match.matched
        THEN IF inner_formula.type_ = "THROW" THEN ThrowFormula
             ELSE exists(match.var_name, inner_formula)
        ELSE TrueFormula

parse_logical_formula(formula_str, op, pos) ==
    LET left_formula == parse_constraint(Substr(formula_str, 0, pos))
        right_formula == parse_constraint(SubstrFrom(formula_str, pos + Len(op)))
    IN  IF left_formula.type_ = "THROW" \/ right_formula.type_ = "THROW" THEN ThrowFormula
        ELSE IF op = <<"&", "&">> THEN and_formula(<<left_formula, right_formula>>)
        ELSE IF op = <<"|", "|">> THEN or_formula(<<left_formula, right_formula>>)
        ELSE TrueFormula

parse_constraint(constraint_str) ==
    LET cleaned == RemoveSpace(constraint_str)
        mod_pos == Find(cleaned, S_mod)
        percent_pos == Find(cleaned, <<"%">>)
        cmp == FirstOp(cleaned, ComparisonOps)
        lop == FirstOp(cleaned, LogicalOps)
    IN  IF cleaned = S_true THEN TrueFormula
        ELSE IF cleaned = S_false THEN FalseFormula
        ELSE IF starts_with(cleaned, S_exists) THEN parse_existential_formula(cleaned)
        ELSE IF starts_with(cleaned, <<"!">>)
        THEN LET inner == parse_constraint(SubstrFrom(cleaned, 1))
             IN  IF inner.type_ = "THROW" THEN ThrowFormula ELSE not_formula(inner)
        ELSE IF starts_with(cleaned, <<"(">>) /\ ends_with(cleaned, <<")">>)
        THEN parse_constraint(Substr(cleaned, 1, Len(cleaned) - 2))
        ELSE IF mod_pos # npos THEN parse_modulus_constraint(cleaned, mod_pos)
        ELSE IF percent_pos # npos THEN parse_percent_modulus_constraint(cleaned, percent_pos)
        ELSE IF cmp # 0
        THEN parse_comparison_formula(cleaned, ComparisonOps[cmp], Find(cleaned, ComparisonOps[cmp]))
        ELSE IF lop # 0
        THEN parse_logical_formula(cleaned, LogicalOps[lop], Find(cleaned, LogicalOps[lop]))
        ELSE TrueFormula

----------------------------------------------------------------------------
(* Constraint parser of PresburgerTemporalDotParser (dot_parser.cpp) *)

Dot_parse_comparison_formula(formula_str, op, pos) ==
    LET left_term == parse_presburger_term(Substr(formula_str, 0, pos))
        right_term == parse_presburger_term(SubstrFrom(formula_str, pos + Len(op)))
        l == left_term.term
        r == right_term.term
    IN  IF left_term.threw \/ right_term.threw THEN ThrowFormula
        ELSE IF op = <<">", "=">> THEN greaterequal(l, r)
        ELSE IF op = <<"<", "=">> THEN lessequal(l, r)
        ELSE equal(l, r)

\* shared body of the parser's parse_modulus_constraint (skip = 3, "mod")
\* and parse_percent_modulus_constraint (skip = 1, "%")
Dot_parse_mod_part(formula_str, op_pos, skip) ==
    LET expr_str == Substr(formula_str, 0, op_pos)
        mod_part == SubstrFrom(formula_str, op_pos + skip)
        eq2 == Find(mod_part, S_eqeq)
        eq_pos == IF eq2 = npos THEN Find(mod_part, <<"=">>) ELSE eq2
        width == IF eq_pos + 2 <= Len(mod_part) /\ mod_part[eq_pos + 2] = "=" THEN 2 ELSE 1
        expr_term == parse_presburger_term(expr_str)
        m == stoi(Substr(mod_part, 0, eq_pos))
        r == stoi(SubstrFrom(mod_part, eq_pos + width))
    IN  IF eq_pos = npos THEN TrueFormula
        ELSE IF expr_term.threw \/ m.threw \/ r.threw THEN ThrowFormula
        ELSE modulus(expr_term.term, m.val, r.val)

Dot_parse_modulus_constraint(formula_str, mod_pos) ==
    Dot_parse_mod_part(formula_str, mod_pos, 3)

Dot_parse_percent_modulus_constraint(formula_str, percent_pos) ==
    Dot_parse_mod_part(formula_str, percent_pos, 1)

RECURSIVE Dot_parse_constraint(_)
RECURSIVE Dot_parse_existential_formula(_)
RECURSIVE Dot_parse_logical_formula(_, _, _)

Dot_parse_existential_formula(formula_str) ==
    LET colon == Find(formula_str, <<":">>)
        colon_pos == IF colon = npos THEN Find(formula_str, <<".">>) ELSE colon
        var_part == RemoveSpace(Substr(formula_str, 6, colon_pos - 6))
        inner_formula == Dot_parse_constraint(SubstrFrom(formula_str, colon_pos + 1))
    IN  IF colon_pos = npos THEN TrueFormula
        ELSE IF inner_formula.type_ = "THROW" THEN ThrowFormula
        ELSE exists(var_part, inner_formula)

Dot_parse_logical_formula(formula_str, op, pos) ==
    LET left_formula == Dot_parse_constraint(Substr(formula_str, 0, pos))
        right_formula == Dot_parse_constraint(SubstrFrom(formula_str, pos + Len(op)))
    IN  IF left_formula.type_ = "THROW" \/ right_formula.type_ = "THROW" THEN ThrowFormula
        ELSE and_formula(<<left_formula, right_formula>>)

Dot_parse_constraint(constraint_str) ==
    LET cleaned == RemoveSpace(constraint_str)
        mod_pos == Find(cleaned, S_mod)
        percent_pos == Find(cleaned, <<"%">>)
        cmp == FirstOp(cleaned, ComparisonOps)
        lop == FirstOp(cleaned, LogicalOps)
    IN  IF cleaned = S_true THEN TrueFormula
        ELSE IF cleaned = S_false THEN FalseFormula
        ELSE IF starts_with(cleaned, S_exists) THEN Dot_parse_existential_formula(cleaned)
        ELSE IF mod_pos # npos THEN Dot_parse_modulus_constraint(cleaned, mod_pos)
        ELSE IF percent_pos # npos THEN Dot_parse_percent_modulus_constraint(cleaned, percent_pos)
        ELSE IF cmp # 0
        THEN Dot_parse_comparison_formula(cleaned, ComparisonOps[cmp], Find(cleaned, ComparisonOps[cmp]))
        ELSE IF lop # 0
        THEN Dot_parse_logical_formula(cleaned, LogicalOps[lop], Find(cleaned, LogicalOps[lop]))
        ELSE TrueFormula

----------------------------------------------------------------------------
(* GGGTemporalGameManager: the graph and its time-dependent moves *)

Vertices == DOMAIN player

TimeEnv(t) == [x \in {TimeVar} |-> t]

\* an edge carries at most one constraint: <<>> when edge_constraints_ has no entry
is_edge_constraint_satisfied(edge, t) ==
    IF edge.constraint = <<>> THEN TRUE
    ELSE evaluate(edge.constraint[1], TimeEnv(t))

\* boost::out_edges(vertex, graph), in insertion order
out_edges(vertex) == SelectSeq(edges, LAMBDA e : e.src = vertex)

get_available_moves(vertex, t) ==
    LET avail == SelectSeq(out_edges(vertex), LAMBDA e : is_edge_constraint_satisfied(e, t))
    IN  [i \in 1..Len(avail) |-> avail[i].dst]

is_target(vertex) == vertex \in targets

Range(seq) == {seq[i] : i \in 1..Len(seq)}

----------------------------------------------------------------------------
(* GGGTemporalReachabilitySolver *)

\* the time loop starting one step late, at max_time_
BackwardFirstTime_FromMaxTime(T) == T

\* the first value of the loop variable: for (int time = max_time_ - 1; ...)
BackwardFirstTime(T) == T - 1

\* the iteration without the early "continue" on an empty move list
NewAttractor_NoEmptySkip(A, t) ==
    {v \in Vertices :
        LET moves == get_available_moves(v, t)
        IN  IF player[v] = 0
            THEN \E i \in 1..Len(moves) : moves[i] \in A
            ELSE \A i \in 1..Len(moves) : moves[i] \in A}

\* the iteration accumulating into the attractor instead of replacing it
NewAttractor_Accumulate(A, t) ==
    A \cup {v \in Vertices :
                LET moves == get_available_moves(v, t)
                IN  /\ moves # <<>>
                    /\ IF player[v] = 0
                       THEN \E i \in 1..Len(moves) : moves[i] \in A
                       ELSE \A i \in 1..Len(moves) : moves[i] \in A}

\* body of one iteration of the time loop: the new_attractor built from
\* current_attractor A at time t
NewAttractor(A, t) ==
    {v \in Vertices :
        LET moves == get_available_moves(v, t)
        IN  /\ moves # <<>>
            /\ IF player[v] = 0
               THEN \E i \in 1..Len(moves) : moves[i] \in A
               ELSE \A i \in 1..Len(moves) : moves[i] \in A}

\* the solution built by solve from the set of Player-0 winning vertices
WinnerMap(player0_winning) ==
    [v \in Vertices |-> IF v \in player0_winning THEN 0 ELSE 1]

\* the strategy picking the last available move at time 0
StrategyMap_LastMove(player0_winning) ==
    [v \in {u \in player0_winning : get_available_moves(u, 0) # <<>>}
        |-> get_available_moves(v, 0)[Len(get_available_moves(v, 0))]]

\* the strategy built by solve: first available move at time 0, when there is one
StrategyMap(player0_winning) ==
    [v \in {u \in player0_winning : get_available_moves(u, 0) # <<>>}
        |-> get_available_moves(v, 0)[1]]

Player0Set(winner) == {v \in DOMAIN winner : winner[v] = 0}

----------------------------------------------------------------------------
(* GGGTemporalExpansionSolver *)

\* vertices of the static graph: one per (original vertex, time), time in 0..T
StaticVertices(T) == Vertices \X (0..T)

\* the unfolding with the constraint evaluated at the arrival time
expand_temporal_graph_ArrivalTime(T) ==
    {<< <<edges[i].src, t>>, <<edges[i].dst, t + 1>> >> :
        <<i, t>> \in {p \in (1..Len(edges)) \X (0..(T - 1)) :
                         is_edge_constraint_satisfied(edges[p[1]], p[2] + 1)}}

\* edge set built by expand_temporal_graph for time bound T
expand_temporal_graph(T) ==
    {<< <<edges[i].src, t>>, <<edges[i].dst, t + 1>> >> :
        <<i, t>> \in {p \in (1..Len(edges)) \X (0..(T - 1)) :
                         is_edge_constraint_satisfied(edges[p[1]], p[2])}}

create_expanded_target_set(T) == {<<v, T>> : v \in targets}

\* the iteration without the test that skips the vertices already in the attractor
NewVertices_NoSkip(E, W, T) ==
    {x \in StaticVertices(T) : \E y \in W : <<x, y>> \in E}

\* one iteration of the while loop of compute_static_attractor:
\* the vertices inserted into new_vertices
NewVertices(E, W, T) ==
    {x \in StaticVertices(T) \ W : \E y \in W : <<x, y>> \in E}

RECURSIVE compute_static_attractor(_, _, _)
compute_static_attractor(E, W, T) ==
    IF NewVertices(E, W, T) = {} THEN W
    ELSE compute_static_attractor(E, W \cup NewVertices(E, W, T), T)

\* the set player0_winning of convert_solution_back
convert_solution_back(W) == {v \in Vertices : <<v, 0>> \in W}

\* Player-0 winning set returned by GGGTemporalExpansionSolver::solve for bound T
ExpansionSolve(T) ==
    convert_solution_back(
        compute_static_attractor(expand_temporal_graph(T), create_expanded_target_set(T), T))

----------------------------------------------------------------------------
(* Games *)

S_time_eq_0 == <<"t", "i", "m", "e", " ", "=", "=", " ", "0">>
S_time_eq_2 == <<"t", "i", "m", "e", " ", "=", "=", " ", "2">>
S_time_mod2_eq_0 == <<"t", "i", "m", "e", " ", "%", " ", "2", " ", "=", "=", " ", "0">>
S_time_mod2_eq_1 == <<"t", "i", "m", "e", " ", "%", " ", "2", " ", "=", "=", " ", "1">>
S_time_mod0_eq_0 == <<"t", "i", "m", "e", " ", "%", " ", "0", " ", "=", "=", " ", "0">>

Edge(s, d, c) == [src |-> s, dst |-> d, constraint |-> c]

\* constraints of the generated games: none, "time == 0", "time % 2 == 1"
ConstraintOptions ==
    {<<>>, <<parse_constraint(S_time_eq_0)>>, <<parse_constraint(S_time_mod2_eq_1)>>}

GenVertices == 0..(NumVertices - 1)

EdgeOptions == {Edge(s, d, c) : s \in GenVertices, d \in GenVertices, c \in ConstraintOptions}

EdgeSeqs == UNION {[1..n -> EdgeOptions] : n \in 0..MaxEdges}

\* S1: v0 (player 0), v1 (player 0, target); v0 -> v1 "time == 0"; T = 1
GameS1 == [name |-> "S1", player |-> [v \in {0, 1} |-> 0], targets |-> {1},
           edges |-> <<Edge(0, 1, <<parse_constraint(S_time_eq_0)>>)>>,
           max_time |-> 1]

\* S3: v0 = 0 (player 1), t = 1 (player 0, target), s = 2 (player 0);
\* v0 -> t "time == 2", v0 -> s "true"; T = 1
GameS3 == [name |-> "S3", player |-> [v \in {0, 1, 2} |-> IF v = 0 THEN 1 ELSE 0],
           targets |-> {1},
           edges |-> <<Edge(0, 1, <<parse_constraint(S_time_eq_2)>>),
                       Edge(0, 2, <<parse_constraint(S_true)>>)>>,
           max_time |-> 1]

\* S4: v0 (player 0), v1 (player 0, target); v0 -> v0 "time % 2 == 0",
\* v0 -> v1 "time % 2 == 1"; T = 3
GameS4 == [name |-> "S4", player |-> [v \in {0, 1} |-> 0], targets |-> {1},
           edges |-> <<Edge(0, 0, <<parse_constraint(S_time_mod2_eq_0)>>),
                       Edge(0, 1, <<parse_constraint(S_time_mod2_eq_1)>>)>>,
           max_time |-> 3]

ScenarioGames == {GameS1, GameS3, GameS4}

\* values of the variables a behaviour does not use
IdleSolver ==
    /\ time = 0
    /\ current_attractor = {}
    /\ attractor_at = EmptyMap
    /\ back_winner = EmptyMap
    /\ back_strategy = EmptyMap
    /\ static_edges = {}
    /\ target_set = {}
    /\ attractor = {}
    /\ iterations = 0
    /\ changed = FALSE
    /\ exp_winner = EmptyMap
    /\ exp_strategy = EmptyMap

\* GGGReachabilityObjective(type, targets, time_bound = -1)
Objective(type, time_bound) == [type_ |-> type, time_bound_ |-> time_bound]

ObjectiveTypes == {"REACHABILITY", "SAFETY", "TIME_BOUNDED_REACH", "TIME_BOUNDED_SAFETY"}

IdleCaller ==
    /\ first_winner = <<>>
    /\ argv = <<>>
    /\ input = None
    /\ cli = None
    /\ exit_code = None

IdleEval ==
    /\ formula = None
    /\ values = EmptyMap
    /\ result = None
    /\ cstr = <<>>
    /\ parsed = None

\* the state after the solvers were constructed on a loaded game
Init ==
    /\ mode = "solve"
    /\ pc = "start"
    /\ \/ \E g \in ScenarioGames :
             /\ scenario = g.name
             /\ player = g.player
             /\ targets = g.targets
             /\ edges = g.edges
             /\ max_time = g.max_time
       \/ /\ scenario = "gen"
          /\ player \in [GenVertices -> {0, 1}]
          /\ targets \in SUBSET GenVertices
          /\ edges \in EdgeSeqs
          /\ max_time \in 0..MaxT
    /\ objective = Objective("REACHABILITY", -1)
    /\ IdleSolver
    /\ IdleEval
    /\ IdleCaller

graphVars == <<mode, scenario, player, edges, targets, max_time, objective>>
callerVars == <<first_winner, argv, input, cli, exit_code>>
evalVars == <<formula, values, result, cstr, parsed>>
backVars == <<time, current_attractor, attractor_at, back_winner, back_strategy>>
expVars == <<static_edges, target_set, attractor, iterations, changed, exp_winner, exp_strategy>>

\* the set of the previous solve on this solver object taken as the start
InitialAttractor_KeepPrevious == current_attractor \cup {v \in Vertices : is_target(v)}

\* std::set<Vertex> current_attractor, filled with all target vertices
InitialAttractor == {v \in Vertices : is_target(v)}

\* compute_backwards_temporal_attractor, up to the time loop
BackwardInit ==
    /\ mode = "solve" /\ pc = "start"
    /\ current_attractor' = InitialAttractor
    /\ time' = BackwardFirstTime(max_time)
    /\ attractor_at' = (max_time :> InitialAttractor)
    /\ pc' = "backward"
    /\ UNCHANGED <<callerVars, graphVars, evalVars, expVars, back_winner, back_strategy>>

\* one iteration of the time loop
AttractorStep ==
    /\ mode = "solve" /\ pc = "backward"
    /\ time >= 0
    /\ current_attractor' = NewAttractor(current_attractor, time)
    /\ attractor_at' = (time :> NewAttractor(current_attractor, time)) @@ attractor_at
    /\ time' = time - 1
    /\ UNCHANGED <<pc, callerVars, graphVars, evalVars, expVars, back_winner, back_strategy>>

\* the loop has ended: solve builds the solution from the returned set
BackwardSolution ==
    /\ mode = "solve" /\ pc = "backward"
    /\ time < 0
    /\ back_winner' = WinnerMap(current_attractor)
    /\ back_strategy' = StrategyMap(current_attractor)
    /\ pc' = "expand"
    /\ UNCHANGED <<callerVars, graphVars, evalVars, expVars, time, current_attractor, attractor_at>>

\* GGGTemporalExpansionSolver::solve, steps 1 and 2, and the entry of step 3
ExpandTemporalGraph ==
    /\ mode = "solve" /\ pc = "expand"
    /\ static_edges' = expand_temporal_graph(max_time)
    /\ target_set' = create_expanded_target_set(max_time)
    /\ attractor' = create_expanded_target_set(max_time)
    /\ changed' = TRUE
    /\ iterations' = 0
    /\ pc' = "attract"
    /\ UNCHANGED <<callerVars, graphVars, evalVars, backVars, exp_winner, exp_strategy>>

\* one iteration of the while loop of compute_static_attractor
StaticAttractorIter ==
    /\ mode = "solve" /\ pc = "attract"
    /\ changed
    /\ attractor' = attractor \cup NewVertices(static_edges, attractor, max_time)
    /\ changed' = (NewVertices(static_edges, attractor, max_time) # {})
    /\ iterations' = iterations + 1
    /\ UNCHANGED <<pc, callerVars, graphVars, evalVars, backVars, static_edges, target_set,
                   exp_winner, exp_strategy>>

\* the loop has ended: step 4, convert_solution_back
ConvertSolutionBack ==
    /\ mode = "solve" /\ pc = "attract"
    /\ ~changed
    /\ exp_winner' = WinnerMap(convert_solution_back(attractor))
    /\ exp_strategy' = StrategyMap(convert_solution_back(attractor))
    /\ pc' = "done"
    /\ UNCHANGED <<callerVars, graphVars, evalVars, backVars, static_edges, target_set, attractor,
                   iterations, changed>>

\* the caller keeps the solutions and calls solve a second time on the same
\* solver objects and the same graph; what the first solves left behind stays
SolveAgain ==
    /\ mode = "solve" /\ pc = "done"
    /\ first_winner = <<>>
    /\ first_winner' = <<[back |-> back_winner, exp |-> exp_winner]>>
    /\ pc' = "start"
    /\ UNCHANGED <<graphVars, evalVars, backVars, expVars, argv, input, cli, exit_code>>

Next ==
    \/ BackwardInit
    \/ AttractorStep
    \/ BackwardSolution
    \/ ExpandTemporalGraph
    \/ StaticAttractorIter
    \/ ConvertSolutionBack
    \/ SolveAgain

Spec == Init /\ [][Next]_vars

\* the scheduling of compute_static_attractor: a sequential loop, whose next
\* iteration, or whose exit, is always executed
SpecFixpoint ==
    Init /\ [][Next]_vars /\ WF_vars(StaticAttractorIter) /\ WF_vars(ConvertSolutionBack)

\* the solvers constructed on a scenario game with an objective of any type
InitKinds ==
    /\ mode = "solve"
    /\ pc = "start"
    /\ \E g \in ScenarioGames :
          /\ scenario = g.name
          /\ player = g.player
          /\ targets = g.targets
          /\ edges = g.edges
    /\ max_time \in 0..MaxT
    /\ objective \in {Objective(type, b) : type \in ObjectiveTypes, b \in {-1, MaxT}}
    /\ IdleSolver
    /\ IdleEval
    /\ IdleCaller

SpecKinds == InitKinds /\ [][Next]_vars

----------------------------------------------------------------------------
(* Evaluation of formulas: PresburgerFormula::evaluate on generated inputs *)

XVar == <<"x">>

EvalVarNames == {XVar, TimeVar}

\* std::map<std::string, int> over a subset of the variable names
Envs == UNION {[D -> (-MaxVal)..MaxVal] : D \in SUBSET EvalVarNames}

CoefficientMaps == UNION {[D -> {-1, 1, 2}] : D \in SUBSET EvalVarNames}

GenTerms == {[coefficients_ |-> m, constant_ |-> c] : m \in CoefficientMaps, c \in {-1, 0, 1}}

\* right-hand sides around the enumeration bound of EXISTS
BoundTerms == {TermConst(0), TermConst(X_MAX), TermConst(X_MAX + 1)}

GenComparisons ==
    {equal(l, r) : l \in GenTerms, r \in BoundTerms}
    \cup {greaterequal(l, r) : l \in GenTerms, r \in BoundTerms}
    \cup {less(l, r) : l \in GenTerms, r \in BoundTerms}

ExistsFormulas == {exists(XVar, f) : f \in GenComparisons}

\* an EXISTS over x followed by a sibling that reads x from the caller's map
ExistsThenSibling ==
    {and_formula(<<exists(XVar, equal(TermVar(XVar), r)), equal(TermVar(XVar), TermConst(c))>>) :
        r \in BoundTerms, c \in (-MaxVal)..MaxVal}

ModFormulas ==
    {modulus(t, mr[1], mr[2]) :
        t \in GenTerms, mr \in {p \in (1..MaxMod) \X (0..(MaxMod - 1)) : p[2] < p[1]}}

\* AND and OR built from an empty vector of children
EmptyJunctions == {and_formula(<<>>), or_formula(<<>>)}

\* MODULUS built with a modulus that is not positive, directly and from the
\* constraint string "time % 0 == 0"
NonPositiveMods ==
    {modulus(t, m, 0) : t \in {TermConst(1), TermVar(TimeVar)}, m \in {-1, 0}}
    \cup {parse_constraint(S_time_mod0_eq_0)}

\* a MODULUS with modulus 0 below AND, OR, NOT and EXISTS
NestedZeroMods ==
    LET z == modulus(TermVar(XVar), 0, 0)
    IN  {and_formula(<<less(TermVar(XVar), TermConst(0)), z>>),
         or_formula(<<less(TermVar(XVar), TermConst(0)), z>>),
         not_formula(z),
         exists(XVar, z)}

EvalFormulas ==
    ExistsFormulas \cup ExistsThenSibling \cup ModFormulas \cup EmptyJunctions
    \cup NonPositiveMods \cup NestedZeroMods

InitEval ==
    /\ mode = "eval"
    /\ pc = "ready"
    /\ formula \in EvalFormulas
    /\ values \in Envs
    /\ result = None
    /\ cstr = <<>>
    /\ parsed = None
    /\ scenario = None
    /\ player = EmptyMap /\ targets = {} /\ edges = <<>> /\ max_time = 0
    /\ objective = None
    /\ IdleSolver
    /\ IdleCaller

\* a caller evaluates the formula in its environment
\* (a remainder by zero is undefined: the call traps, or returns either value)
Evaluate ==
    /\ mode = "eval" /\ pc = "ready"
    /\ IF RemainderByZero(formula, values)
       THEN \/ pc' = "sigfpe" /\ result' = result
            \/ pc' = "evaluated" /\ result' \in BOOLEAN
       ELSE pc' = "evaluated" /\ result' = evaluate(formula, values)
    /\ UNCHANGED <<callerVars, graphVars, backVars, expVars, formula, values, cstr, parsed>>

NextEval == Evaluate

SpecEval == InitEval /\ [][NextEval]_vars

----------------------------------------------------------------------------
(* Loading an edge constraint from its string and querying the edge *)

S_exists_odd == <<"e", "x", "i", "s", "t", "s", " ", "k", ":", " ", "t", "i", "m", "e",
                  " ", "=", "=", " ", "2", "*", "k", " ", "+", " ", "1">>
S_exists_k_eq == <<"e", "x", "i", "s", "t", "s", " ", "k", ":", " ", "t", "i", "m", "e",
                   " ", "=", "=", " ", "k">>
S_time_ge_5 == <<"t", "i", "m", "e", " ", ">", "=", " ", "5">>
S_window == <<"t", "i", "m", "e", " ", ">", "=", " ", "2", " ", "&", "&", " ",
              "t", "i", "m", "e", " ", "<", "=", " ", "5">>
S_either == <<"t", "i", "m", "e", " ", "<", "=", " ", "2", " ", "|", "|", " ",
              "t", "i", "m", "e", " ", ">", "=", " ", "5">>

ConstraintStrings ==
    {S_true, S_false, S_time_eq_0, S_time_eq_2, S_time_ge_5, S_time_mod2_eq_0,
     S_time_mod2_eq_1, S_exists_odd, S_exists_k_eq, S_window, S_either}

InitParse ==
    /\ mode = "parse"
    /\ pc = "ready"
    /\ cstr \in ConstraintStrings
    /\ time \in 0..MaxTime
    /\ parsed = None
    /\ result = None
    /\ formula = None
    /\ values = EmptyMap
    /\ scenario = None
    /\ player = EmptyMap /\ targets = {} /\ edges = <<>> /\ max_time = 0
    /\ current_attractor = {} /\ attractor_at = EmptyMap
    /\ back_winner = EmptyMap /\ back_strategy = EmptyMap
    /\ static_edges = {} /\ target_set = {} /\ attractor = {} /\ iterations = 0
    /\ changed = FALSE /\ exp_winner = EmptyMap /\ exp_strategy = EmptyMap
    /\ objective = None
    /\ IdleCaller

\* the edge line is read: each loader parses the constraint string
\* (ggg: GGGTemporalGameManager, dot: PresburgerTemporalDotParser)
LoadConstraint ==
    /\ mode = "parse" /\ pc = "ready"
    /\ parsed' = [ggg |-> parse_constraint(cstr), dot |-> Dot_parse_constraint(cstr)]
    /\ pc' = "loaded"
    /\ UNCHANGED <<callerVars, graphVars, backVars, expVars, formula, values, result, cstr>>

\* is_edge_constraint_satisfied(edge, time) on the edge carrying the parsed constraint
QueryEdge ==
    /\ mode = "parse" /\ pc = "loaded"
    /\ parsed.ggg.type_ # "THROW" /\ parsed.dot.type_ # "THROW"
    /\ result' = [ggg |-> is_edge_constraint_satisfied(Edge(0, 0, <<parsed.ggg>>), time),
                  dot |-> is_edge_constraint_satisfied(Edge(0, 0, <<parsed.dot>>), time)]
    /\ pc' = "queried"
    /\ UNCHANGED <<callerVars, graphVars, backVars, expVars, formula, values, cstr, parsed>>

NextParse == LoadConstraint \/ QueryEdge

SpecParse == InitParse /\ [][NextParse]_vars

----------------------------------------------------------------------------
(* The objective classes: GGGReachabilityObjective (ggg_temporal_graph.cpp)
   and ReachabilityObjective (reachability_objective.cpp) *)

\* GGGReachabilityObjective::is_satisfied
is_satisfied(vertex, t) ==
    CASE objective.type_ = "REACHABILITY" -> is_target(vertex)
      [] objective.type_ = "TIME_BOUNDED_REACH" ->
            is_target(vertex) /\ (objective.time_bound_ < 0 \/ t <= objective.time_bound_)
      [] objective.type_ = "SAFETY" -> ~is_target(vertex)
      [] objective.type_ = "TIME_BOUNDED_SAFETY" ->
            ~is_target(vertex) \/ (objective.time_bound_ >= 0 /\ t > objective.time_bound_)
      [] OTHER -> FALSE

\* GGGReachabilityObjective::has_failed
has_failed(vertex, t) ==
    CASE objective.type_ = "REACHABILITY" -> FALSE
      [] objective.type_ = "TIME_BOUNDED_REACH" ->
            objective.time_bound_ >= 0 /\ t > objective.time_bound_ /\ ~is_target(vertex)
      [] objective.type_ = "SAFETY" -> is_target(vertex)
      [] objective.type_ = "TIME_BOUNDED_SAFETY" ->
            is_target(vertex) /\ (objective.time_bound_ < 0 \/ t <= objective.time_bound_)
      [] OTHER -> TRUE

\* ReachabilityObjective::is_target (targets_)
RO_is_target(vertex) == vertex \in targets

\* ReachabilityObjective::is_satisfied
RO_is_satisfied(current_vertex, current_time) ==
    LET at_target == RO_is_target(current_vertex)
    IN  CASE objective.type_ \in {"REACHABILITY", "TIME_BOUNDED_REACH"} -> at_target
          [] objective.type_ = "SAFETY" -> ~at_target
          [] objective.type_ = "TIME_BOUNDED_SAFETY" ->
                IF objective.time_bound_ >= 0 /\ current_time >= objective.time_bound_
                THEN TRUE
                ELSE ~at_target
          [] OTHER -> FALSE

\* ReachabilityObjective::has_failed
RO_has_failed(current_vertex, current_time) ==
    LET at_target == RO_is_target(current_vertex)
    IN  CASE objective.type_ = "REACHABILITY" -> FALSE
          [] objective.type_ = "TIME_BOUNDED_REACH" ->
                IF objective.time_bound_ >= 0 /\ current_time > objective.time_bound_
                THEN ~at_target
                ELSE FALSE
          [] objective.type_ = "SAFETY" -> at_target
          [] objective.type_ = "TIME_BOUNDED_SAFETY" -> at_target
          [] OTHER -> FALSE

\* an objective of either class constructed over the vertices of a graph
InitObjective ==
    /\ mode = "objective"
    /\ pc = "ready"
    /\ objective \in {Objective(type, b) : type \in ObjectiveTypes, b \in (-1)..MaxT}
    /\ player = [v \in GenVertices |-> 0]
    /\ targets \in SUBSET GenVertices
    /\ edges = <<>>
    /\ max_time = 0
    /\ scenario = None
    /\ IdleSolver
    /\ IdleEval
    /\ IdleCaller

\* a solver asks both classes about the state (vertex, t)
QueryObjective ==
    /\ mode = "objective" /\ pc = "ready"
    /\ \E vertex \in Vertices, t \in 0..(MaxT + 1) :
          result' = [vertex |-> vertex, time |-> t,
                     ggg |-> [is_satisfied |-> is_satisfied(vertex, t),
                              has_failed |-> has_failed(vertex, t)],
                     ro |-> [is_satisfied |-> RO_is_satisfied(vertex, t),
                             has_failed |-> RO_has_failed(vertex, t)]]
    /\ pc' = "queried"
    /\ UNCHANGED <<callerVars, graphVars, backVars, expVars, formula, values, cstr, parsed>>

NextObjective == QueryObjective

SpecObjective == InitObjective /\ [][NextObjective]_vars

----------------------------------------------------------------------------
(* The command-line front-ends: temporis (main_ggg.cpp), the static
   expansion executable (main_static_expansion.cpp) and
   TemporalGameApplication (temporal_game_application.cpp) *)

A_help == <<"-", "-", "h", "e", "l", "p">>
A_h == <<"-", "h">>
A_validate == <<"-", "-", "v", "a", "l", "i", "d", "a", "t", "e">>
A_check_format == <<"-", "-", "c", "h", "e", "c", "k", "-", "f", "o", "r", "m", "a", "t">>
A_time_bound == <<"-", "-", "t", "i", "m", "e", "-", "b", "o", "u", "n", "d">>
A_t == <<"-", "t">>
A_5 == <<"5">>
A_0 == <<"0">>
A_g_dot == <<"g", ".", "d", "o", "t">>
S_dot == <<".", "d", "o", "t">>

\* the words a generated command line is made of
ArgTokens == {A_help, A_validate, A_time_bound, A_t, A_5, A_0, A_g_dot}

\* argv[1..argc-1]
CommandLines == UNION {[1..n -> ArgTokens] : n \in 0..MaxArgs}

\* main returned n
Exit(n) == [state |-> "returned", value |-> n]

\* main has not returned
Running == [state |-> "running", value |-> 0]

\* an exception left main: std::terminate, no value is returned
Aborted == [state |-> "aborted", value |-> 0]

S_time_modk_eq_0 == <<"t", "i", "m", "e", " ", "%", " ", "k", " ", "=", "=", " ", "0">>
S_7 == <<" ", "7">>
S_0 == <<" ", "0">>

\* an edge line of a description: src -> dst [constraint="..."], or src -> dst
Line(s, d, c) == [src |-> s, dst |-> d, constraint |-> c]

\* the vertex and edge lines of a description
Desc(p, t, e) == [player |-> p, target |-> t, edges |-> e]

\* v0 -> v1 "time == 0", v1 target: scenario S1 as a description
D_S1 == Desc([v \in {0, 1} |-> 0], {1}, <<Line(0, 1, <<S_time_eq_0>>)>>)

\* as D_S1, with a loop on v1
D_valid == Desc([v \in {0, 1} |-> 0], {1},
                <<Line(0, 1, <<S_time_eq_0>>), Line(1, 1, <<>>)>>)

D_no_target == Desc([v \in {0, 1} |-> 0], {},
                    <<Line(0, 1, <<S_time_eq_0>>), Line(1, 1, <<S_time_mod2_eq_0>>)>>)

\* every edge constrained, no constraint mentions time
D_timeless == Desc([v \in {0, 1} |-> 0], {1},
                   <<Line(0, 1, <<S_true>>), Line(1, 1, <<S_true>>)>>)

\* a modulus that is not a number
D_throw == Desc([v \in {0, 1} |-> 0], {1},
                <<Line(0, 1, <<S_time_modk_eq_0>>), Line(1, 1, <<>>)>>)

D_empty == Desc(EmptyMap, {}, <<>>)

Descriptions == {D_S1, D_valid, D_no_target, D_timeless, D_throw, D_empty}

\* text after "// time_bound:" in the description: no such line, " 7", " 0"
Comments == {<<>>, <<S_7>>, <<S_0>>}

\* what the executable reads: the text of g.dot, which is also the text on stdin
Content(e, c, g) == [empty |-> e, comment |-> c, game |-> g]

Contents ==
    {Content(TRUE, <<>>, D_empty)} \cup {Content(FALSE, c, g) : c \in Comments, g \in Descriptions}

Inputs ==
    {[opens |-> TRUE, content |-> c] : c \in Contents}
        \cup {[opens |-> FALSE, content |-> Content(FALSE, <<>>, D_valid)]}

\* the manager's graph: vertex owners, vertex target property, edges
Graph(p, t, e) == [player |-> p, target |-> t, edges |-> e]

NoGraph == Graph(EmptyMap, {}, <<>>)

\* an exception of std::stoi left parse_constraint while the edges were read
Threw(g) ==
    \E i \in 1..Len(g.edges) :
        g.edges[i].constraint # <<>> /\ g.edges[i].constraint[1].type_ = "THROW"

\* the vertex and edge loop of load_from_dot_file
load_from_dot_file(content) ==
    Graph(content.game.player, content.game.target,
          [i \in 1..Len(content.game.edges) |->
              LET line == content.game.edges[i]
              IN  IF line.constraint = <<>> THEN Edge(line.src, line.dst, <<>>)
                  ELSE Edge(line.src, line.dst, <<parse_constraint(line.constraint[1])>>)])

\* GGGTemporalGameManager::load_from_dot_string: the same loop over the lines of a string
load_from_dot_string(content) == load_from_dot_file(content)

\* the vertex and edge loop of parse_file_with_objective
Dot_parse_file_with_objective(content) ==
    Graph(content.game.player, content.game.target,
          [i \in 1..Len(content.game.edges) |->
              LET line == content.game.edges[i]
              IN  IF line.constraint = <<>> THEN Edge(line.src, line.dst, <<>>)
                  ELSE Edge(line.src, line.dst, <<Dot_parse_constraint(line.constraint[1])>>)])

get_target_vertices(g) == g.target

out_degree(v, g) == Len(SelectSeq(g.edges, LAMBDA e : e.src = v))

validate_game_structure(g) ==
    IF DOMAIN g.player = {} THEN FALSE
    ELSE IF \E v \in DOMAIN g.player : out_degree(v, g) = 0 THEN FALSE
    ELSE get_target_vertices(g) # {}

\* arg.find(".dot") != std::string::npos
NamesDotFile(arg) == Find(arg, S_dot) # npos

\* std::ifstream file(filename); file.is_open(): g.dot is the one file there may be
is_open(filename) == filename = A_g_dot /\ input.opens

\* time bound of a solver constructed without one (main_ggg.cpp 220, main_static_expansion.cpp 54)
DefaultTimeBound == 50

\* max_time of the solver TemporalGameApplication::run constructs
ApplicationMaxTime == 30

\* locals of TemporalReachabilityExecutor::run on entry
GGG_Locals ==
    [validate_only |-> FALSE, filename |-> <<>>, user_time_bound |-> -1,
     returned |-> <<>>, graph |-> NoGraph, valid |-> <<>>, load_failed |-> FALSE,
     solved |-> FALSE]

RECURSIVE GGG_ParseArgs(_, _, _)
\* the argument loop of run from argv[i] on: returned holds the value of a
\* return statement inside the loop
GGG_ParseArgs(args, i, st) ==
    IF i > Len(args) THEN st
    ELSE LET arg == args[i]
         IN  IF arg \in {A_validate, A_check_format}
             THEN GGG_ParseArgs(args, i + 1, [st EXCEPT !.validate_only = TRUE])
             ELSE IF arg \in {A_help, A_h} THEN [st EXCEPT !.returned = <<0>>]
             ELSE IF arg \in {A_time_bound, A_t}
             THEN IF i + 1 <= Len(args)
                  THEN LET n == stoi(args[i + 1])
                       IN  IF n.threw THEN [st EXCEPT !.returned = <<1>>]
                           ELSE IF n.val <= 0
                           THEN [st EXCEPT !.user_time_bound = n.val, !.returned = <<1>>]
                           ELSE GGG_ParseArgs(args, i + 2, [st EXCEPT !.user_time_bound = n.val])
                  ELSE [st EXCEPT !.returned = <<1>>]
             ELSE IF NamesDotFile(arg)
             THEN GGG_ParseArgs(args, i + 1, [st EXCEPT !.filename = arg])
             ELSE GGG_ParseArgs(args, i + 1, st)

\* TemporalReachabilityExecutor::extract_time_bound_from_content: the first
\* "// time_bound:" line whose text reads as a positive int, -1 without one
GGG_extract_time_bound_from_content(content) ==
    LET c == content.comment
        ok == {i \in 1..Len(c) : ~stoi(c[i]).threw /\ stoi(c[i]).val > 0}
    IN  IF ok = {} THEN -1
        ELSE stoi(c[CHOOSE i \in ok : \A j \in ok : i <= j]).val

\* user_time_bound after the input was read
GGG_TimeBoundAfterInput(st) ==
    IF st.user_time_bound <= 0
       /\ (st.filename = <<>> \/ is_open(st.filename))
       /\ GGG_extract_time_bound_from_content(input.content) > 0
    THEN GGG_extract_time_bound_from_content(input.content)
    ELSE st.user_time_bound

cliVars == <<argv, input, first_winner>>
solverVars == <<evalVars, backVars, expVars>>
gameVars == <<player, edges, targets, max_time, objective>>

\* run, the argument loop
GGG_ParseArguments ==
    /\ mode = "main_ggg" /\ pc = "main"
    /\ cli' = GGG_ParseArgs(argv, 1, GGG_Locals)
    /\ IF cli'.returned # <<>>
       THEN exit_code' = Exit(cli'.returned[1]) /\ pc' = "exit"
       ELSE exit_code' = exit_code /\ pc' = "input"
    /\ UNCHANGED <<mode, scenario, gameVars, cliVars, solverVars>>

\* run, from "Handle input" to the test of load_success; main has no handler
\* for an exception leaving the loader
GGG_LoadGame ==
    /\ mode = "main_ggg" /\ pc = "input"
    /\ \E using_stdin \in {cli.filename = <<>>}, bound \in {GGG_TimeBoundAfterInput(cli)},
          loaded \in {IF cli.filename = <<>> THEN load_from_dot_string(input.content)
                      ELSE load_from_dot_file(input.content)} :
           IF using_stdin /\ input.content.empty
           THEN /\ cli' = cli
                /\ exit_code' = Exit(1) /\ pc' = "exit"
           ELSE IF ~using_stdin /\ ~is_open(cli.filename)
           THEN /\ cli' = [cli EXCEPT !.user_time_bound = bound, !.load_failed = TRUE]
                /\ exit_code' = Exit(1) /\ pc' = "exit"
           ELSE IF Threw(loaded)
           THEN /\ cli' = [cli EXCEPT !.user_time_bound = bound, !.load_failed = TRUE]
                /\ exit_code' = Aborted /\ pc' = "exit"
           ELSE /\ cli' = [cli EXCEPT !.user_time_bound = bound, !.graph = loaded]
                /\ exit_code' = exit_code /\ pc' = "loaded"
    /\ UNCHANGED <<mode, scenario, gameVars, cliVars, solverVars>>

\* run, the validate_only branch
GGG_Validate ==
    /\ mode = "main_ggg" /\ pc = "loaded"
    /\ cli.validate_only
    /\ cli' = [cli EXCEPT !.valid = <<validate_game_structure(cli.graph)>>]
    /\ exit_code' = Exit(IF cli'.valid[1] THEN 0 ELSE 1)
    /\ pc' = "exit"
    /\ UNCHANGED <<mode, scenario, gameVars, cliVars, solverVars>>

\* run, from get_target_vertices to the construction of the solver
GGG_MakeSolver ==
    /\ mode = "main_ggg" /\ pc = "loaded"
    /\ ~cli.validate_only
    /\ IF get_target_vertices(cli.graph) = {}
       THEN /\ exit_code' = Exit(1) /\ pc' = "exit"
            /\ UNCHANGED gameVars
       ELSE /\ player' = cli.graph.player
            /\ edges' = cli.graph.edges
            /\ targets' = get_target_vertices(cli.graph)
            /\ objective' = Objective("REACHABILITY", -1)
            /\ max_time' = IF cli.user_time_bound > 0 THEN cli.user_time_bound
                           ELSE DefaultTimeBound
            /\ exit_code' = exit_code /\ pc' = "solver"
    /\ UNCHANGED <<mode, scenario, cliVars, cli, solverVars>>

RECURSIVE compute_backwards_temporal_attractor(_, _)
\* the time loop of compute_backwards_temporal_attractor from time t down to 0
\* (the set of each iteration is computed before the next one starts: the
\* test on new_attractor makes TLC evaluate it here)
compute_backwards_temporal_attractor(A, t) ==
    IF t < 0 THEN A
    ELSE LET new_attractor == NewAttractor(A, t)
         IN  IF new_attractor \subseteq Vertices
             THEN compute_backwards_temporal_attractor(new_attractor, t - 1)
             ELSE {}

\* GGGTemporalReachabilitySolver::solve for a reachability objective
BackwardSolve ==
    compute_backwards_temporal_attractor(InitialAttractor, BackwardFirstTime(max_time))

\* run, from solver->solve to return 0
GGG_Solve ==
    /\ mode = "main_ggg" /\ pc = "solver"
    /\ back_winner' = WinnerMap(BackwardSolve)
    /\ back_strategy' = StrategyMap(BackwardSolve)
    /\ current_attractor' = BackwardSolve
    /\ cli' = [cli EXCEPT !.solved = TRUE]
    /\ exit_code' = Exit(0)
    /\ pc' = "exit"
    /\ UNCHANGED <<mode, scenario, gameVars, cliVars, evalVars, expVars, time, attractor_at>>

\* members of StaticExpansionTemporalExecutor after construction, and the
\* local files of parse_arguments
Static_Members ==
    [validate_ |-> FALSE, time_bound_ |-> DefaultTimeBound, files |-> <<>>,
     returned |-> <<>>, graph |-> NoGraph, load_failed |-> FALSE, solved |-> FALSE]

RECURSIVE Static_ParseArgs(_, _, _)
\* the argument loop of parse_arguments from argv[i] on: returned holds the
\* value of a return statement inside the loop
Static_ParseArgs(args, i, st) ==
    IF i > Len(args) THEN st
    ELSE LET arg == args[i]
         IN  IF arg \in {A_help, A_h} THEN [st EXCEPT !.returned = <<FALSE>>]
             ELSE IF arg = A_validate
             THEN Static_ParseArgs(args, i + 1, [st EXCEPT !.validate_ = TRUE])
             ELSE IF arg = A_time_bound
             THEN IF i + 1 <= Len(args)
                  THEN LET n == stoi(args[i + 1])
                       IN  IF n.threw THEN [st EXCEPT !.returned = <<FALSE>>]
                           ELSE Static_ParseArgs(args, i + 2, [st EXCEPT !.time_bound_ = n.val])
                  ELSE [st EXCEPT !.returned = <<FALSE>>]
             ELSE IF arg = <<>> \/ arg[1] = "-" THEN [st EXCEPT !.returned = <<FALSE>>]
             ELSE Static_ParseArgs(args, i + 1, [st EXCEPT !.files = Append(@, arg)])

\* StaticExpansionTemporalExecutor::extract_time_bound_from_content: the
\* number of the first "// time_bound:" line that std::stoi reads, -1 without one
Static_extract_time_bound_from_content(content) ==
    LET c == content.comment
        ok == {i \in 1..Len(c) : ~stoi(c[i]).threw}
    IN  IF ok = {} THEN -1
        ELSE stoi(c[CHOOSE i \in ok : \A j \in ok : i <= j]).val

\* time_bound_ after parse_from_stdin or parse_from_file read the content
Static_TimeBoundAfterInput(st) ==
    IF Static_extract_time_bound_from_content(input.content) > 0
    THEN Static_extract_time_bound_from_content(input.content)
    ELSE st.time_bound_

\* parse_arguments, the argument loop and the choice of the input; main
\* returns 1 when parse_arguments returns false
Static_ParseArguments ==
    /\ mode = "main_static_expansion" /\ pc = "main"
    /\ cli' = Static_ParseArgs(argv, 1, Static_Members)
    /\ IF cli'.returned # <<>> \/ Len(cli'.files) > 1
       THEN exit_code' = Exit(1) /\ pc' = "exit"
       ELSE exit_code' = exit_code /\ pc' = "input"
    /\ UNCHANGED <<mode, scenario, gameVars, cliVars, solverVars>>

\* parse_from_stdin or parse_from_file, and parse_graph, which catches the
\* exceptions of the loader
Static_ParseInput ==
    /\ mode = "main_static_expansion" /\ pc = "input"
    /\ \E bound \in {Static_TimeBoundAfterInput(cli)},
          loaded \in {load_from_dot_string(input.content)} :
           IF cli.files # <<>> /\ ~is_open(cli.files[1])
           THEN /\ cli' = [cli EXCEPT !.load_failed = TRUE]
                /\ exit_code' = Exit(1) /\ pc' = "exit"
           ELSE IF Threw(loaded)
           THEN /\ cli' = [cli EXCEPT !.time_bound_ = bound, !.load_failed = TRUE]
                /\ exit_code' = Exit(1) /\ pc' = "exit"
           ELSE /\ cli' = [cli EXCEPT !.time_bound_ = bound, !.graph = loaded]
                /\ exit_code' = exit_code /\ pc' = "loaded"
    /\ UNCHANGED <<mode, scenario, gameVars, cliVars, solverVars>>

\* parse_graph, the objective, and solve_and_output up to the construction
\* of the solver
Static_MakeSolver ==
    /\ mode = "main_static_expansion" /\ pc = "loaded"
    /\ player' = cli.graph.player
    /\ edges' = cli.graph.edges
    /\ targets' = get_target_vertices(cli.graph)
    /\ objective' = Objective("REACHABILITY", -1)
    /\ max_time' = cli.time_bound_
    /\ pc' = "solver"
    /\ UNCHANGED <<mode, scenario, cliVars, cli, exit_code, solverVars>>

RECURSIVE compute_attractor(_, _)
\* the Player-0 attractor of the layered graph, layer by layer: the vertices
\* attracted in layer t, A being those attracted in layer t + 1
compute_attractor(A, t) ==
    IF t < 0 THEN A
    ELSE LET layer == NewAttractor(A, t)
         IN  IF layer \subseteq Vertices THEN compute_attractor(layer, t - 1) ELSE {}

\* StaticExpansionSolver::solve: the vertices whose copy in layer 0 is in the
\* attractor of the targets of layer T
StaticExpansionSolve(T) ==
    IF T < 0 THEN {} ELSE compute_attractor({v \in Vertices : is_target(v)}, T - 1)

\* solve_and_output from solver->solve on, and the return 0 of main
Static_Solve ==
    /\ mode = "main_static_expansion" /\ pc = "solver"
    /\ exp_winner' = WinnerMap(StaticExpansionSolve(max_time))
    /\ cli' = [cli EXCEPT !.solved = TRUE]
    /\ exit_code' = Exit(0)
    /\ pc' = "exit"
    /\ UNCHANGED <<mode, scenario, gameVars, cliVars, evalVars, backVars, static_edges,
                   target_set, attractor, iterations, changed, exp_strategy>>

\* locals of TemporalGameApplication::run on entry
App_Locals ==
    [validate_only |-> FALSE, filename |-> <<>>, returned |-> <<>>,
     graph |-> NoGraph, is_valid |-> <<>>, load_failed |-> FALSE, solved |-> FALSE]

RECURSIVE App_ParseArgs(_, _, _)
\* the argument loop of TemporalGameApplication::run from argv[i] on
App_ParseArgs(args, i, st) ==
    IF i > Len(args) THEN st
    ELSE LET arg == args[i]
         IN  IF arg \in {A_validate, A_check_format}
             THEN App_ParseArgs(args, i + 1, [st EXCEPT !.validate_only = TRUE])
             ELSE IF arg \in {A_help, A_h} THEN [st EXCEPT !.returned = <<0>>]
             ELSE IF NamesDotFile(arg)
             THEN App_ParseArgs(args, i + 1, [st EXCEPT !.filename = arg])
             ELSE App_ParseArgs(args, i + 1, st)

\* validate_time_in_constraint: the constraint string names the variable time
validate_time_in_constraint(constraint_str) == Find(constraint_str, TimeVar) # npos

\* validate_file_format and validate_file_format_with_report: the file can be
\* read, a target vertex exists, every vertex has an outgoing edge, every
\* constraint references time
validate_file_format(filename) ==
    LET g == input.content.game
    IN  /\ is_open(filename)
        /\ g.target # {}
        /\ \A v \in DOMAIN g.player : \E i \in 1..Len(g.edges) : g.edges[i].src = v
        /\ \A i \in 1..Len(g.edges) :
              g.edges[i].constraint # <<>> => validate_time_in_constraint(g.edges[i].constraint[1])

\* run, the argument loop
App_ParseArguments ==
    /\ mode = "application" /\ pc = "main"
    /\ cli' = App_ParseArgs(argv, 1, App_Locals)
    /\ IF cli'.returned # <<>>
       THEN exit_code' = Exit(cli'.returned[1]) /\ pc' = "exit"
       ELSE exit_code' = exit_code /\ pc' = "input"
    /\ UNCHANGED <<mode, scenario, gameVars, cliVars, solverVars>>

\* run without a file name: run_demo_mode, return 0
App_Demo ==
    /\ mode = "application" /\ pc = "input"
    /\ cli.filename = <<>>
    /\ exit_code' = Exit(0)
    /\ pc' = "exit"
    /\ UNCHANGED <<mode, scenario, gameVars, cliVars, cli, solverVars>>

\* run, the validate_only branch
App_Validate ==
    /\ mode = "application" /\ pc = "input"
    /\ cli.filename # <<>> /\ cli.validate_only
    /\ cli' = [cli EXCEPT !.is_valid = <<validate_file_format(cli.filename)>>]
    /\ exit_code' = Exit(IF cli'.is_valid[1] THEN 0 ELSE 1)
    /\ pc' = "exit"
    /\ UNCHANGED <<mode, scenario, gameVars, cliVars, solverVars>>

\* run, parse_file_with_objective; without an objective, load_and_analyze_file;
\* an exception of the constraint parser leaves run
App_Load ==
    /\ mode = "application" /\ pc = "input"
    /\ cli.filename # <<>> /\ ~cli.validate_only
    /\ \E loaded \in {Dot_parse_file_with_objective(input.content)},
          is_valid \in {validate_file_format(cli.filename)} :
           IF ~is_open(cli.filename)
           THEN /\ cli' = [cli EXCEPT !.load_failed = TRUE]
                /\ exit_code' = Exit(IF is_valid THEN 0 ELSE 1)
                /\ pc' = "exit"
                /\ UNCHANGED gameVars
           ELSE IF Threw(loaded)
           THEN /\ cli' = [cli EXCEPT !.load_failed = TRUE]
                /\ exit_code' = Aborted /\ pc' = "exit"
                /\ UNCHANGED gameVars
           ELSE IF get_target_vertices(loaded) = {}
           THEN /\ cli' = [cli EXCEPT !.graph = loaded]
                /\ exit_code' = Exit(IF is_valid THEN 0 ELSE 1)
                /\ pc' = "exit"
                /\ UNCHANGED gameVars
           ELSE /\ cli' = [cli EXCEPT !.graph = loaded]
                /\ player' = loaded.player
                /\ edges' = loaded.edges
                /\ targets' = get_target_vertices(loaded)
                /\ objective' = Objective("REACHABILITY", -1)
                /\ max_time' = ApplicationMaxTime
                /\ exit_code' = exit_code /\ pc' = "solver"
    /\ UNCHANGED <<mode, scenario, cliVars, solverVars>>

\* one time step of solve_recursive: the vertices Player 0 wins from at time
\* t, W being those won from at time t + 1
WinningAt(W, t) ==
    {v \in Vertices :
        \/ RO_is_satisfied(v, t)
        \/ /\ ~RO_has_failed(v, t)
           /\ t < max_time
           /\ LET moves == get_available_moves(v, t)
              IN  /\ moves # <<>>
                  /\ IF player[v] = 0
                     THEN \E i \in 1..Len(moves) : moves[i] \in W
                     ELSE \A i \in 1..Len(moves) : moves[i] \in W}

RECURSIVE solve_recursive(_, _)
\* the vertices v with solve_recursive((v, initial_time)) = PLAYER_0, from
\* those of time t + 1
solve_recursive(W, t) ==
    IF t < 0 THEN W
    ELSE LET memo_ == WinningAt(W, t)
         IN  IF memo_ \subseteq Vertices THEN solve_recursive(memo_, t - 1) ELSE {}

\* player0_winning of compute_winning_regions(0)
compute_winning_regions ==
    {v \in Vertices : RO_is_target(v)} \cup solve_recursive(WinningAt({}, max_time), max_time - 1)

\* run, the solver branch: compute_winning_regions(0), return true
App_Solve ==
    /\ mode = "application" /\ pc = "solver"
    /\ result' = WinnerMap(compute_winning_regions)
    /\ cli' = [cli EXCEPT !.solved = TRUE]
    /\ exit_code' = Exit(1)
    /\ pc' = "exit"
    /\ UNCHANGED <<mode, scenario, gameVars, cliVars, backVars, expVars,
                   formula, values, cstr, parsed>>

InitCli ==
    /\ mode \in {"main_ggg", "main_static_expansion", "application"}
    /\ pc = "main"
    /\ argv \in CommandLines
    /\ input \in Inputs
    /\ cli = None
    /\ exit_code = Running
    /\ first_winner = <<>>
    /\ scenario = None
    /\ player = EmptyMap /\ targets = {} /\ edges = <<>> /\ max_time = 0
    /\ objective = None
    /\ IdleSolver
    /\ IdleEval

NextCli ==
    \/ GGG_ParseArguments
    \/ GGG_LoadGame
    \/ GGG_Validate
    \/ GGG_MakeSolver
    \/ GGG_Solve
    \/ Static_ParseArguments
    \/ Static_ParseInput
    \/ Static_MakeSolver
    \/ Static_Solve
    \/ App_ParseArguments
    \/ App_Demo
    \/ App_Validate
    \/ App_Load
    \/ App_Solve

SpecCli == InitCli /\ [][NextCli]_vars

----------------------------------------------------------------------------
(* PresburgerTerm: constructors, operator+ and operator* *)

\* PresburgerTerm()
TermZero == [coefficients_ |-> EmptyMap, constant_ |-> 0]

\* operator+: result.coefficients_[var] += coeff inserts var when it is absent
TermPlus(a, other) ==
    [coefficients_ |->
        [var \in DOMAIN a.coefficients_ \cup DOMAIN other.coefficients_ |->
            (IF var \in DOMAIN a.coefficients_ THEN a.coefficients_[var] ELSE 0)
            + (IF var \in DOMAIN other.coefficients_ THEN other.coefficients_[var] ELSE 0)],
     constant_ |-> a.constant_ + other.constant_]

\* operator*(int scalar)
TermTimes(a, scalar) ==
    [coefficients_ |-> [var \in DOMAIN a.coefficients_ |-> a.coefficients_[var] * scalar],
     constant_ |-> a.constant_ * scalar]

\* the terms a constructor call builds
ConstructedTerms ==
    {TermZero}
        \cup {TermConst(val) : val \in (-MaxVal)..MaxVal}
        \cup {TermVar(var) : var \in EvalVarNames}
        \cup {TermVarCoeff(var, c) : var \in EvalVarNames, c \in (-MaxVal)..MaxVal}

\* every number of the term is within the magnitude the model follows
TermInRange(t) ==
    /\ t.constant_ \in (-MaxVal)..MaxVal
    /\ \A var \in DOMAIN t.coefficients_ : t.coefficients_[var] \in (-MaxVal)..MaxVal

InitTerm ==
    /\ mode = "term"
    /\ pc = "ready"
    /\ result = TermZero
    /\ formula = None /\ values = EmptyMap /\ cstr = <<>> /\ parsed = None
    /\ scenario = None
    /\ player = EmptyMap /\ targets = {} /\ edges = <<>> /\ max_time = 0
    /\ objective = None
    /\ IdleSolver
    /\ IdleCaller

\* a constructor call
ConstructTerm ==
    /\ mode = "term"
    /\ result' \in ConstructedTerms
    /\ UNCHANGED <<pc, callerVars, graphVars, backVars, expVars, formula, values, cstr, parsed>>

\* result = result + other, other freshly constructed
AddTerm ==
    /\ mode = "term"
    /\ \E other \in ConstructedTerms :
          /\ TermInRange(TermPlus(result, other))
          /\ result' = TermPlus(result, other)
    /\ UNCHANGED <<pc, callerVars, graphVars, backVars, expVars, formula, values, cstr, parsed>>

\* result = result * scalar
ScaleTerm ==
    /\ mode = "term"
    /\ \E scalar \in (-MaxVal)..MaxVal :
          /\ TermInRange(TermTimes(result, scalar))
          /\ result' = TermTimes(result, scalar)
    /\ UNCHANGED <<pc, callerVars, graphVars, backVars, expVars, formula, values, cstr, parsed>>

NextTerm == ConstructTerm \/ AddTerm \/ ScaleTerm

SpecTerm == InitTerm /\ [][NextTerm]_vars

----------------------------------------------------------------------------
(* TemporalReachabilitySolver: solve, solve_recursive and
   compute_winning_regions, one step of the call stack at a time *)

PLAYER_0 == "PLAYER_0"
PLAYER_1 == "PLAYER_1"
UNDETERMINED == "UNDETERMINED"

GameState(vertex, t) == [vertex |-> vertex, time |-> t]

\* the state of a call made from the move loop with the time left as it is
NextState_SameTime(state, next_vertex) == GameState(next_vertex, state.time)

\* GameState next_state{next_vertex, state.time + 1}
NextState(state, next_vertex) == GameState(next_vertex, state.time + 1)

\* a call of solve_recursive that has just been entered
Frame(state) == [state |-> state, stage |-> "entry", moves |-> <<>>, i |-> 0, result |-> UNDETERMINED]

\* is_terminal_state: <<>> when the state is not terminal, else <<winner>>
is_terminal_state(state) ==
    IF RO_is_satisfied(state.vertex, state.time) THEN <<PLAYER_0>>
    ELSE IF RO_has_failed(state.vertex, state.time) THEN <<PLAYER_1>>
    ELSE <<>>

\* the solver object and the running call: memo_, the visited set of the
\* caller, the stack of solve_recursive calls, the value just returned
\* (<<>> when none is pending), and what is recorded of the run
Solver(entry, initial_time) ==
    [entry |-> entry, initial_state |-> GameState(0, initial_time),
     memo_ |-> EmptyMap, visited |-> {},
     stack |-> <<>>, ret |-> <<>>, vertex_it |-> 0,
     player0_winning |-> {}, player1_winning |-> {},
     explored |-> {}, cycle_branch |-> FALSE]

Top == cli.stack[Len(cli.stack)]
Pop == SubSeq(cli.stack, 1, Len(cli.stack) - 1)

\* memo_[state] = winner; return memo_[state];
Return(state, winner, visited) ==
    [cli EXCEPT !.memo_ = (state :> winner) @@ cli.memo_,
                !.visited = visited,
                !.stack = Pop,
                !.ret = <<winner>>]

recVars == <<graphVars, backVars, expVars, formula, values, cstr, parsed,
             first_winner, argv, input, exit_code>>

\* the edge lists whose edges are all open at time 0 (a constraint may close
\* an edge later)
OpenEdgeSeqs ==
    {es \in EdgeSeqs : \A k \in 1..Len(es) : is_edge_constraint_satisfied(es[k], 0)}

\* the solver constructed on a game and a ReachabilityObjective
InitRecursive ==
    /\ mode = "recursive"
    /\ pc = "ready"
    /\ scenario = "gen"
    /\ player \in [GenVertices -> {0, 1}]
    /\ targets \in SUBSET GenVertices
    /\ edges \in OpenEdgeSeqs
    /\ max_time \in 0..MaxT
    /\ objective \in {Objective("REACHABILITY", -1), Objective("TIME_BOUNDED_REACH", 1)}
    /\ IdleSolver
    /\ formula = None /\ values = EmptyMap /\ cstr = <<>> /\ parsed = None
    /\ result = <<>>
    /\ first_winner = <<>> /\ argv = <<>> /\ input = None /\ exit_code = None
    /\ cli = Solver("constructed", 0)

\* solve(initial_vertex, initial_time), up to the call of solve_recursive
Rec_Solve ==
    /\ mode = "recursive" /\ pc = "ready"
    /\ \E initial_vertex \in Vertices, initial_time \in 0..(max_time + 1) :
          cli' = [Solver("solve", initial_time) EXCEPT
                     !.initial_state = GameState(initial_vertex, initial_time),
                     !.stack = <<Frame(GameState(initial_vertex, initial_time))>>,
                     !.explored = {GameState(initial_vertex, initial_time)}]
    /\ pc' = "running"
    /\ UNCHANGED <<recVars, result>>

\* solve: solve_recursive has returned, build_solution reads the winner
Rec_SolveReturn ==
    /\ mode = "recursive" /\ pc = "running"
    /\ cli.entry = "solve" /\ cli.stack = <<>> /\ cli.ret # <<>>
    /\ result' = IF cli.initial_state \in DOMAIN cli.memo_
                  THEN <<cli.memo_[cli.initial_state]>> ELSE <<UNDETERMINED>>
    /\ pc' = "done"
    /\ UNCHANGED <<recVars, cli>>

\* compute_winning_regions(initial_time), up to the vertex loop
Rec_ComputeWinningRegions ==
    /\ mode = "recursive" /\ pc = "ready"
    /\ \E initial_time \in {0, max_time} :
          cli' = Solver("compute_winning_regions", initial_time)
    /\ pc' = "running"
    /\ UNCHANGED <<recVars, result>>

\* compute_winning_regions: the loop over the vertices, up to the call of
\* solve_recursive or to the next vertex, and the return after the last one
Rec_NextVertex ==
    /\ mode = "recursive" /\ pc = "running"
    /\ cli.entry = "compute_winning_regions" /\ cli.stack = <<>> /\ cli.ret = <<>>
    /\ IF cli.vertex_it \notin Vertices
       THEN /\ pc' = "done"
            /\ result' = <<cli.player0_winning, cli.player1_winning>>
            /\ UNCHANGED cli
       ELSE /\ UNCHANGED <<pc, result>>
            /\ IF RO_is_target(cli.vertex_it)
               THEN cli' = [cli EXCEPT !.player0_winning = @ \cup {cli.vertex_it},
                                       !.vertex_it = @ + 1]
               ELSE LET state == GameState(cli.vertex_it, cli.initial_state.time)
                    IN  cli' = [cli EXCEPT !.initial_state = state,
                                           !.visited = {},
                                           !.stack = <<Frame(state)>>,
                                           !.explored = @ \cup {state}]
    /\ UNCHANGED recVars

\* compute_winning_regions: solve_recursive has returned for the vertex
Rec_VertexResult ==
    /\ mode = "recursive" /\ pc = "running"
    /\ cli.entry = "compute_winning_regions" /\ cli.stack = <<>> /\ cli.ret # <<>>
    /\ cli' = [cli EXCEPT
                  !.player0_winning = IF cli.ret[1] = PLAYER_0 THEN @ \cup {cli.vertex_it} ELSE @,
                  !.player1_winning = IF cli.ret[1] = PLAYER_1 THEN @ \cup {cli.vertex_it} ELSE @,
                  !.vertex_it = @ + 1,
                  !.ret = <<>>]
    /\ UNCHANGED <<recVars, pc, result>>

\* solve_recursive from its entry to the move loop: memoization, cycle check,
\* terminal state, time bound, visited.insert, empty move list
Rec_Enter ==
    /\ mode = "recursive" /\ pc = "running"
    /\ cli.stack # <<>> /\ Top.stage = "entry"
    /\ LET state == Top.state
           moves == get_available_moves(state.vertex, state.time)
       IN  IF state \in DOMAIN cli.memo_
           THEN cli' = [cli EXCEPT !.stack = Pop, !.ret = <<cli.memo_[state]>>]
           ELSE IF state \in cli.visited
           THEN cli' = [Return(state, PLAYER_1, cli.visited) EXCEPT !.cycle_branch = TRUE]
           ELSE IF is_terminal_state(state) # <<>>
           THEN cli' = Return(state, is_terminal_state(state)[1], cli.visited)
           ELSE IF state.time >= max_time
           THEN cli' = Return(state, PLAYER_1, cli.visited)
           ELSE IF moves = <<>>
           THEN cli' = Return(state, PLAYER_1, cli.visited)
           ELSE cli' = [cli EXCEPT
                           !.visited = @ \cup {state},
                           !.stack[Len(cli.stack)] =
                               [state |-> state, stage |-> "loop", moves |-> moves, i |-> 1,
                                result |-> IF player[state.vertex] = 0
                                           THEN PLAYER_1 ELSE PLAYER_0]]
    /\ UNCHANGED <<recVars, pc, result>>

\* the move loop calls solve_recursive(next_state, visited)
Rec_Call ==
    /\ mode = "recursive" /\ pc = "running"
    /\ cli.stack # <<>> /\ Top.stage = "loop"
    /\ cli.ret = <<>> /\ Top.i <= Len(Top.moves)
    /\ cli' = [cli EXCEPT
                  !.stack = Append(@, Frame(NextState(Top.state, Top.moves[Top.i]))),
                  !.explored = @ \cup {NextState(Top.state, Top.moves[Top.i])}]
    /\ UNCHANGED <<recVars, pc, result>>

\* the move loop reads next_result: break on the move that decides for the
\* owner of the vertex, else the next move
Rec_Result ==
    /\ mode = "recursive" /\ pc = "running"
    /\ cli.stack # <<>> /\ Top.stage = "loop"
    /\ cli.ret # <<>>
    /\ LET decisive == IF player[Top.state.vertex] = 0 THEN PLAYER_0 ELSE PLAYER_1
       IN  cli' = [cli EXCEPT
                      !.ret = <<>>,
                      !.stack[Len(cli.stack)] =
                          IF cli.ret[1] = decisive
                          THEN [Top EXCEPT !.result = decisive, !.i = Len(Top.moves) + 1]
                          ELSE [Top EXCEPT !.i = @ + 1]]
    /\ UNCHANGED <<recVars, pc, result>>

\* after the move loop: memo_[state] = result; visited.erase(state); return
Rec_Leave ==
    /\ mode = "recursive" /\ pc = "running"
    /\ cli.stack # <<>> /\ Top.stage = "loop"
    /\ cli.ret = <<>> /\ Top.i > Len(Top.moves)
    /\ cli' = Return(Top.state, Top.result, cli.visited \ {Top.state})
    /\ UNCHANGED <<recVars, pc, result>>

NextRecursive ==
    \/ Rec_Solve
    \/ Rec_SolveReturn
    \/ Rec_ComputeWinningRegions
    \/ Rec_NextVertex
    \/ Rec_VertexResult
    \/ Rec_Enter
    \/ Rec_Call
    \/ Rec_Result
    \/ Rec_Leave

\* the solver is sequential code: its next step is always executed
SpecRecursive == InitRecursive /\ [][NextRecursive]_vars /\ WF_vars(NextRecursive)

----------------------------------------------------------------------------
(* The timed game itself: strategies and plays *)

\* available successors of v at time t
Succ(v, t) == Range(get_available_moves(v, t))

\* the positions at which Player 0 has to choose
P0Positions ==
    {p \in Vertices \X (0..(max_time - 1)) : player[p[1]] = 0 /\ Succ(p[1], p[2]) # {}}

RECURSIVE StrategiesOver(_)
\* all ways of fixing one available successor at each position of ps
StrategiesOver(ps) ==
    IF ps = {} THEN {EmptyMap}
    ELSE LET p == CHOOSE q \in ps : TRUE
         IN  {(p :> w) @@ s : w \in Succ(p[1], p[2]), s \in StrategiesOver(ps \ {p})}

RECURSIVE AllPlaysWin(_, _, _)
\* every play from (v, t) consistent with sigma makes max_time - t moves and
\* ends on a target vertex
AllPlaysWin(sigma, v, t) ==
    IF t = max_time THEN v \in targets
    ELSE IF Succ(v, t) = {} THEN FALSE
    ELSE IF player[v] = 0 THEN AllPlaysWin(sigma, sigma[<<v, t>>], t + 1)
    ELSE \A w \in Succ(v, t) : AllPlaysWin(sigma, w, t + 1)

HasWinningStrategy(v) == \E sigma \in StrategiesOver(P0Positions) : AllPlaysWin(sigma, v, 0)

BackwardSolved == mode = "solve" /\ pc \in {"expand", "attract", "done"}
BothSolved == mode = "solve" /\ pc = "done"

----------------------------------------------------------------------------
(* Claims *)

\* C1: the backward attractor solver and the expansion solver assign the
\* same set of vertices to Player 0 on the same game and time bound.
C1_SolversAgree ==
    BothSolved => Player0Set(back_winner) = Player0Set(exp_winner)

\* C2: the backward solver's winning set is exactly the set of vertices from
\* which Player 0 has a strategy all of whose plays make max_time available
\* moves and stand on a target at time max_time; a play stuck earlier is lost.
C2_PunctualStrategy ==
    BackwardSolved =>
        \A v \in Vertices : (back_winner[v] = 0) <=> HasWinningStrategy(v)

\* a Player-1 vertex wins over two or more rounds while a target vertex loses
C2_Witness ==
    /\ BackwardSolved /\ max_time >= 2
    /\ \E v \in Vertices : player[v] = 1 /\ back_winner[v] = 0
    /\ \E u \in targets : back_winner[u] = 1

\* C3: for time bound 0 both solvers return exactly the target set.
C3_ZeroBoundIsTargets ==
    (BothSolved /\ max_time = 0) =>
        /\ Player0Set(back_winner) = targets
        /\ Player0Set(exp_winner) = targets

\* time bound 0 on a game with edges, a target and a non-target vertex
C3_Witness ==
    /\ BothSolved /\ max_time = 0
    /\ edges # <<>> /\ targets # {} /\ targets # Vertices

\* C4 (as stated): the expansion solver's winning set for max_time + 1
\* contains its winning set for max_time.
C4_MonotoneInT ==
    BothSolved => Player0Set(exp_winner) \subseteq ExpansionSolve(max_time + 1)

\* every target vertex can move at time max_time, and only to target vertices
TargetsStayOnTargets ==
    \A u \in targets : Succ(u, max_time) # {} /\ Succ(u, max_time) \subseteq targets

\* C4 (amended): the winning set for max_time + 1 contains the winning set
\* for max_time provided every target vertex has an available move at time
\* max_time and all of its available moves at that time lead to targets.
C4_MonotoneWhenTargetsStay ==
    (BothSolved /\ TargetsStayOnTargets) =>
        Player0Set(exp_winner) \subseteq ExpansionSolve(max_time + 1)

\* a non-target vertex wins for max_time >= 1 and the targets stay on targets
C4_Witness ==
    /\ BothSolved /\ TargetsStayOnTargets /\ max_time >= 1
    /\ \E v \in Vertices \ targets : exp_winner[v] = 0

\* C5 (as stated): scenario S1 is won by Player 0 from exactly {v0, v1}.
C5_S1_BothVertices ==
    (BackwardSolved /\ scenario = "S1") => Player0Set(back_winner) = {0, 1}

\* C5 (amended): scenario S1 is won by Player 0 from exactly {v0}; the target
\* v1 has no move at time 0 and so is not winning for time bound 1.
C5_S1_OnlyV0 ==
    (BackwardSolved /\ scenario = "S1") => Player0Set(back_winner) = {0}

C5_Witness == BackwardSolved /\ scenario = "S1" /\ max_time = 1 /\ back_winner[0] = 0

\* C6 (as stated): scenario S3 is won by Player 0 from exactly {t}.
C6_S3_OnlyTarget ==
    (BackwardSolved /\ scenario = "S3") => Player0Set(back_winner) = {1}

\* C6 (amended): scenario S3 is won by Player 0 from no vertex: v0 can only
\* move to s at time 0, and t and s have no move at all.
C6_S3_Nobody ==
    (BackwardSolved /\ scenario = "S3") => Player0Set(back_winner) = {}

C6_Witness ==
    /\ BackwardSolved /\ scenario = "S3" /\ max_time = 1
    /\ back_winner[0] = 1 /\ get_available_moves(0, 0) = <<2>>

\* C7 (as stated): scenario S4 is won by Player 0 from exactly {v0, v1}.
C7_S4_BothVertices ==
    (BackwardSolved /\ scenario = "S4") => Player0Set(back_winner) = {0, 1}

\* C7 (amended): scenario S4 is won by Player 0 from no vertex for time
\* bound 3: at time 2 only the self-loop of v0 is available and v1 cannot move.
C7_S4_Nobody ==
    (BackwardSolved /\ scenario = "S4") => Player0Set(back_winner) = {}

C7_Witness ==
    /\ BackwardSolved /\ scenario = "S4" /\ max_time = 3
    /\ get_available_moves(0, 2) = <<0>> /\ get_available_moves(0, 1) = <<1>>
    /\ attractor_at[2] = {}

\* C8: the edge loaded with "exists k: time == 2*k + 1" is available at time
\* t exactly when t is odd and 1 <= t <= 21, for both loaders.
C8_ExistsOddWindow ==
    (mode = "parse" /\ pc = "queried" /\ cstr = S_exists_odd) =>
        /\ result.ggg <=> (time % 2 = 1 /\ 1 <= time /\ time <= 21)
        /\ result.dot <=> (time % 2 = 1 /\ 1 <= time /\ time <= 21)

\* C9: evaluate(Exists(x, f), env) holds exactly when some n in 0..10 makes f
\* true in env with x rebound to n; the caller's env is untouched, so a
\* sibling evaluated afterwards reads the caller's own x.
C9_BoundedExists ==
    (mode = "eval" /\ pc = "evaluated") =>
        /\ formula \in ExistsFormulas =>
             (result <=>
                \E n \in 0..10 :
                    evaluate(formula.children_[1],
                             [y \in DOMAIN values \cup {formula.existential_var_} |->
                                 IF y = formula.existential_var_ THEN n ELSE values[y]]))
        /\ formula \in ExistsThenSibling =>
             (result <=>
                /\ \E n \in 0..10 :
                       evaluate(formula.children_[1].children_[1],
                                [y \in DOMAIN values \cup {XVar} |->
                                    IF y = XVar THEN n ELSE values[y]])
                /\ evaluate(formula.children_[2], values))

\* x is bound in the caller's env to a value that falsifies f, and only the
\* last enumerated value 10 satisfies f
C9_Witness ==
    /\ mode = "eval" /\ pc = "evaluated"
    /\ formula = exists(XVar, equal(TermVar(XVar), TermConst(X_MAX)))
    /\ XVar \in DOMAIN values /\ values[XVar] = 1
    /\ result = TRUE

\* C10: evaluate(Mod(t, m, r), e) holds exactly when the value of t
\* normalised into 0..m-1 equals r (m > 0, 0 <= r < m).
C10_ModNormalised ==
    (mode = "eval" /\ pc = "evaluated" /\ formula.type_ = "MODULUS"
        /\ formula.modulus_ > 0) =>
        (result <=> (evaluate_term(formula.left_, values) % formula.modulus_
                        = formula.remainder_))

\* C11: a MODULUS formula whose modulus is not positive is rejected when it
\* is built, so no evaluation ever computes a remainder by zero.
C11_NoRemainderByZero ==
    (mode = "eval" /\ pc \in {"evaluated", "sigfpe"}) =>
        /\ formula.type_ = "MODULUS" => formula.modulus_ > 0
        /\ ~RemainderByZero(formula, values)

\* C12: in every environment And([]) evaluates to true and Or([]) to false.
C12_EmptyJunctions ==
    (mode = "eval" /\ pc = "evaluated" /\ formula.type_ \in {"AND", "OR"}
        /\ formula.children_ = <<>>) =>
        (result <=> formula.type_ = "AND")

\* Or([]) was evaluated in an environment that binds time, and gave false
C12_Witness ==
    /\ mode = "eval" /\ pc = "evaluated"
    /\ formula = or_formula(<<>>)
    /\ TimeVar \in DOMAIN values
    /\ result = FALSE

\* C15: the backward solver invoked with an objective that is not of type
\* REACHABILITY aborts: it returns no winning set computed from the targets.
C15_NonReachabilityAborts ==
    (mode = "solve" /\ objective.type_ # "REACHABILITY") =>
        /\ back_winner = EmptyMap
        /\ pc \notin {"expand", "attract", "done"}

C16_TimeBoundedReach ==
    (mode = "objective" /\ pc = "queried" /\ objective.type_ = "TIME_BOUNDED_REACH"
        /\ objective.time_bound_ >= 0) =>
        LET sat == result.vertex \in targets /\ result.time <= objective.time_bound_
            failed == result.vertex \notin targets /\ result.time > objective.time_bound_
        IN  /\ result.ggg.is_satisfied <=> sat
            /\ result.ggg.has_failed <=> failed
            /\ result.ro.is_satisfied <=> sat
            /\ result.ro.has_failed <=> failed

\* C17: for TimeBoundedSafety with bound B >= 0, in both objective classes,
\* is_satisfied(v, t) holds exactly when t > B or v is not a target, and
\* has_failed(v, t) exactly when v is a target and t <= B.
C17_TimeBoundedSafety ==
    (mode = "objective" /\ pc = "queried" /\ objective.type_ = "TIME_BOUNDED_SAFETY"
        /\ objective.time_bound_ >= 0) =>
        LET sat == result.time > objective.time_bound_ \/ result.vertex \notin targets
            failed == result.vertex \in targets /\ result.time <= objective.time_bound_
        IN  /\ result.ggg.is_satisfied <=> sat
            /\ result.ggg.has_failed <=> failed
            /\ result.ro.is_satisfied <=> sat
            /\ result.ro.has_failed <=> failed

\* C13: in every run of a solver executable, a loaded game that fails
\* validation is rejected before the solver runs: solver->solve is never
\* reached on a game for which validate_game_structure returns false
C13_ValidatedBeforeSolve ==
    (mode \in {"main_ggg", "main_static_expansion"} /\ pc = "solver")
        => validate_game_structure(cli.graph)

\* every constraint of the description that was read references the variable time
ConstraintsReferenceTime ==
    \A i \in 1..Len(input.content.game.edges) :
        input.content.game.edges[i].constraint # <<>>
            => Find(input.content.game.edges[i].constraint[1], TimeVar) # npos

\* C14: validate_game_structure accepts a game exactly when a target vertex
\* exists, every vertex has an outgoing edge and every edge constraint
\* references the variable time
C14_ValidationAcceptsIff ==
    (mode = "main_ggg" /\ pc = "exit" /\ cli.valid # <<>>)
        => (cli.valid[1]
               <=> /\ cli.graph.target # {}
                   /\ \A v \in DOMAIN cli.graph.player :
                         \E i \in 1..Len(cli.graph.edges) : cli.graph.edges[i].src = v
                   /\ ConstraintsReferenceTime)

\* C19: every front-end exits with 0 or 1; a run that solved the game exits
\* with 0, never with 1; a run whose load failed exits with 1, never with 0
C19_ExitCodes ==
    pc = "exit"
        => /\ exit_code \in {Exit(0), Exit(1)}
           /\ cli.solved => exit_code = Exit(0)
           /\ cli.load_failed => exit_code = Exit(1)

\* positions of argv holding -t or --time-bound followed by a number
TimeBoundOptions ==
    {i \in 1..(Len(argv) - 1) : argv[i] \in {A_t, A_time_bound} /\ ~stoi(argv[i + 1]).threw}

\* the time bound the solver is to use: the value given on the command line,
\* else the positive N of a "// time_bound: N" comment, else 50
ResolvedTimeBound ==
    IF TimeBoundOptions # {}
    THEN stoi(argv[(CHOOSE i \in TimeBoundOptions : \A j \in TimeBoundOptions : j <= i) + 1]).val
    ELSE IF \E k \in 1..Len(input.content.comment) :
                ~stoi(input.content.comment[k]).threw /\ stoi(input.content.comment[k]).val > 0
    THEN stoi(input.content.comment[
             CHOOSE k \in 1..Len(input.content.comment) :
                 ~stoi(input.content.comment[k]).threw
                     /\ stoi(input.content.comment[k]).val > 0]).val
    ELSE DefaultTimeBound

\* C20: both solver executables construct the solver with the value of
\* -t/--time-bound when one is given, else with the positive N of the
\* time_bound comment, else with 50; the comment never overrides the command line
C20_TimeBoundResolution ==
    (mode \in {"main_ggg", "main_static_expansion"} /\ pc = "solver")
        => max_time = ResolvedTimeBound

\* C21: in every PresburgerTerm built by constructor calls, operator+ and
\* operator*, no variable is stored in the coefficient map with coefficient 0
C21_NoZeroCoefficient ==
    mode = "term"
        => \A var \in DOMAIN result.coefficients_ : result.coefficients_[var] # 0

\* the set of successors available from v at time t
MoveSet(v, t) == Range(get_available_moves(v, t))

\* C22: every iteration of the backward attractor at time t replaces A by
\* A' = {v : M(v,t) nonempty, owner 0 => M(v,t) meets A, owner 1 => M(v,t)
\* inside A}, A being the set of the previous iteration only; a vertex
\* without an available move at t is not in A'
C22_IterationRule ==
    mode = "solve" =>
        \A t \in DOMAIN attractor_at :
            t < max_time =>
                /\ (t + 1) \in DOMAIN attractor_at
                /\ attractor_at[t] =
                      {v \in Vertices :
                          /\ MoveSet(v, t) # {}
                          /\ (player[v] = 0 => MoveSet(v, t) \cap attractor_at[t + 1] # {})
                          /\ (player[v] = 1 => MoveSet(v, t) \subseteq attractor_at[t + 1])}
                /\ \A v \in Vertices : MoveSet(v, t) = {} => v \notin attractor_at[t]

\* an iteration that dropped a vertex of the previous set and kept a Player-1
\* vertex, with a vertex that had no move left out
C22_Witness ==
    /\ mode = "solve" /\ pc = "backward"
    /\ \E t \in DOMAIN attractor_at :
          /\ t < max_time
          /\ attractor_at[t] = current_attractor
          /\ attractor_at[t + 1] \ attractor_at[t] # {}
          /\ \E u \in attractor_at[t] : player[u] = 1
          /\ \E w \in Vertices : MoveSet(w, t) = {}

\* C23: in the expansion fixpoint a Player-1 node (u,t) outside the expanded
\* target set is in W only if it has at least one successor in the unfolded
\* graph and all its successors are in W
C23_Player1AllSuccessors ==
    (mode = "solve" /\ pc = "done") =>
        \A x \in attractor \ target_set :
            player[x[1]] = 1 =>
                /\ \E y \in StaticVertices(max_time) : <<x, y>> \in static_edges
                /\ \A y \in StaticVertices(max_time) :
                      <<x, y>> \in static_edges => y \in attractor

FirstAvailableEdge(v) ==
    LET avail == {i \in 1..Len(edges) :
                     edges[i].src = v /\ is_edge_constraint_satisfied(edges[i], 0)}
    IN  IF avail = {} THEN 0
        ELSE CHOOSE i \in avail : \A j \in avail : i <= j

\* what C25 says of one solution
StrategyAsClaimed(winner, strategy) ==
    /\ \A v \in DOMAIN strategy : winner[v] = 0
    /\ \A v \in DOMAIN strategy :
          /\ FirstAvailableEdge(v) # 0
          /\ strategy[v] = edges[FirstAvailableEdge(v)].dst
    /\ \A v \in Player0Set(winner) :
          v \notin DOMAIN strategy <=> FirstAvailableEdge(v) = 0

\* C25: after solve, of either solver, a strategy move is recorded only for
\* Player-0 winners; a recorded move is the target of the first edge of v, in
\* edge order, whose constraint holds at time 0; a Player-0 winner has no
\* move recorded exactly when it has no available successor at time 0
C25_FirstAvailableMove ==
    /\ (mode = "solve" /\ pc \in {"expand", "attract", "done"})
          => StrategyAsClaimed(back_winner, back_strategy)
    /\ (mode = "solve" /\ pc = "done")
          => StrategyAsClaimed(exp_winner, exp_strategy)

\* both solvers recorded a move that is not the target of the first outgoing
\* edge (whose constraint fails at time 0), and left a winner without a move
C25_Witness ==
    /\ mode = "solve" /\ pc = "done"
    /\ \E v \in DOMAIN back_strategy \cap DOMAIN exp_strategy :
          /\ ~is_edge_constraint_satisfied(out_edges(v)[1], 0)
          /\ out_edges(v)[1].dst # back_strategy[v]
    /\ \E u \in Player0Set(back_winner) \cap Player0Set(exp_winner) :
          u \notin DOMAIN back_strategy /\ u \notin DOMAIN exp_strategy

\* C26: the edge loaded with "time >= 2 && time <= 5" is available at t
\* exactly when 2 <= t <= 5, and the edge loaded with "time <= 2 || time >= 5"
\* exactly when t <= 2 or t >= 5, for every t of the range
C26_LogicalConnectives ==
    (mode = "parse" /\ pc = "queried") =>
        /\ cstr = S_window =>
              /\ result.ggg <=> (time >= 2 /\ time <= 5)
              /\ result.dot <=> (time >= 2 /\ time <= 5)
        /\ cstr = S_either =>
              /\ result.ggg <=> (time <= 2 \/ time >= 5)
              /\ result.dot <=> (time <= 2 \/ time >= 5)

\* C27: after both solves, for every t in 0..T the vertices v with (v,t) in
\* the final W of the expansion fixpoint are the set A the backward attractor
\* held after processing time t (the targets for t = T); the unfolded graph has
\* edges from layer t to layer t+1 only, and none leaving layer T
C27_LayerCorrespondence ==
    (mode = "solve" /\ pc = "done") =>
        /\ \A t \in 0..max_time :
              {v \in Vertices : <<v, t>> \in attractor} = attractor_at[t]
        /\ \A e \in static_edges :
              /\ e[1][2] < max_time
              /\ e[2][2] = e[1][2] + 1

\* C28: for T >= 1 every vertex of the winning set returned by the backward
\* attractor has an available successor at time 0 and gets a strategy move;
\* a target vertex without available move at time 0 is not winning
C28_WinnersCanMove ==
    (BackwardSolved /\ max_time >= 1) =>
        /\ \A v \in Player0Set(back_winner) :
              /\ \E i \in 1..Len(edges) :
                    edges[i].src = v /\ is_edge_constraint_satisfied(edges[i], 0)
              /\ v \in DOMAIN back_strategy
        /\ \A v \in targets :
              (~\E i \in 1..Len(edges) :
                    edges[i].src = v /\ is_edge_constraint_satisfied(edges[i], 0))
                 => back_winner[v] = 1

\* a solve with T >= 1 that lost a target without move at time 0 and gave a
\* move to a winner
C28_Witness ==
    /\ BackwardSolved /\ max_time >= 1
    /\ \E v \in targets : get_available_moves(v, 0) = <<>> /\ back_winner[v] = 1
    /\ \E u \in Player0Set(back_winner) : u \in DOMAIN back_strategy

\* C29: for every objective kind, target set, bound and state (v, t),
\* is_satisfied and has_failed are never both true, in GGGReachabilityObjective
\* and in ReachabilityObjective
C29_NeverBothTrue ==
    (mode = "objective" /\ pc = "queried") =>
        /\ ~(result.ggg.is_satisfied /\ result.ggg.has_failed)
        /\ ~(result.ro.is_satisfied /\ result.ro.has_failed)

\* what C30 says of every state of a run of the recursive solver
RecursionAsClaimed ==
    /\ \A k \in 1..(Len(cli.stack) - 1) :
          cli.stack[k + 1].state.time > cli.stack[k].state.time
    /\ Len(cli.stack) <=
          (IF max_time - cli.initial_state.time > 0
           THEN max_time - cli.initial_state.time ELSE 0) + 1
    /\ ~cli.cycle_branch
    /\ \A s \in DOMAIN cli.memo_ :
          /\ cli.memo_[s] \in {PLAYER_0, PLAYER_1}
          /\ (s.time >= max_time /\ is_terminal_state(s) = <<>>) => cli.memo_[s] = PLAYER_1
    /\ cli.ret # <<>> => cli.ret[1] \in {PLAYER_0, PLAYER_1}
    /\ pc = "done" => cli.explored \subseteq DOMAIN cli.memo_

\* C30: solve_recursive terminates from every state (v, t) on every game,
\* cycles and self-loops included: the time grows along the call stack, the
\* stack is never deeper than max(0, max_time - t) + 1, the cycle branch is
\* never taken, every explored state gets PLAYER_0 or PLAYER_1, and a
\* non-terminal state at time >= max_time gets PLAYER_1
C30_RecursionTerminates ==
    /\ []((mode = "recursive" /\ pc \in {"running", "done"}) => RecursionAsClaimed)
    /\ ((mode = "recursive" /\ pc = "running") ~> (pc = "done"))

\* a solve from time 0 that went through a self-loop down to max_time: the
\* stack reached its largest depth, at a state given to Player 1 there
C30_Witness ==
    /\ mode = "recursive" /\ pc = "running"
    /\ cli.entry = "solve" /\ cli.initial_state.time = 0 /\ max_time >= 2
    /\ Len(cli.stack) = max_time + 1
    /\ \A k \in 1..Len(cli.stack) : cli.stack[k].state.vertex = cli.initial_state.vertex
    /\ Top.stage = "entry"
    /\ Top.state.time = max_time
    /\ is_terminal_state(Top.state) = <<>>

====
